---- MODULE Spec2Model ----
(***************************************************************************)
(* A model of bot.py: the channel-manager bot's registry (admins, free and *)
(* paid channel catalogues, block list, user directory), its snapshot      *)
(* file, the per-user wizard state and the handlers that act on them.      *)
(* Every handler is one action; the outbound platform calls a handler      *)
(* issues are recorded in `calls`, the event it handled in `ev`.           *)
(***************************************************************************)
EXTENDS Integers, Sequences, FiniteSets, TLC

VARIABLES
    pc,                 \* "boot" before main() has run load_data, "run" after
    DATA_FILE,          \* the configured path of the snapshot file
    disk,               \* the content of the snapshot file, or NoFile
    ADMIN_IDS,          \* list of user ids
    FREE_CHANNELS,      \* insertion-ordered dict: chat id -> title
    FREE_CHANNEL_LINKS, \* insertion-ordered dict: chat id -> invite link
    PAID_CHANNELS,      \* list of rendered entries
    BLOCKED_USER_IDS,   \* set of user ids
    ACTIVE_CHATS,       \* insertion-ordered dict: chat id -> title
    USER_DATA,          \* insertion-ordered dict: user id -> profile
    user_data,          \* context.user_data of every user: a dict per user
    ev,                 \* the event the last handler handled
    calls,              \* the outbound calls the last handler issued, in order
    task                \* the fan-out suspended at an outbound call, if any

vars == <<pc, DATA_FILE, disk, ADMIN_IDS, FREE_CHANNELS, FREE_CHANNEL_LINKS,
          PAID_CHANNELS, BLOCKED_USER_IDS, ACTIVE_CHATS, USER_DATA, user_data,
          ev, calls, task>>

registry == <<ADMIN_IDS, FREE_CHANNELS, FREE_CHANNEL_LINKS, PAID_CHANNELS,
              BLOCKED_USER_IDS, ACTIVE_CHATS>>

-----------------------------------------------------------------------------
(* Configuration and the bounded universe of inputs.                       *)

OWNER_ID == 1
MANDATORY_CHANNEL_ID == -1009
LOG_CHANNEL_ID == -1008

\* The users that send events: the owner and two others.
Users == {1, 2, 3}

\* Python's None where a state name or a token is expected, and where a text
\* is expected (a message text is never empty).
None == "None"
NoText == <<>>
NoUser == 0

\* The snapshot file: absent, or holding one JSON document.
NoFile == <<>>
File(content) == <<content>>

\* Message texts are sequences of characters.
T_A == <<"A">>
T_B == <<"B">>
T_L == <<"L">>
T_x == <<"x">>
T_0 == <<"0">>
T_1 == <<"1">>
T_2 == <<"2">>
T_3 == <<"3">>
T_7 == <<"7">>
T_c1 == <<"-", "1", "0", "0", "1">>
T_c2 == <<"-", "1", "0", "0", "2">>
T_hi == <<"h", "i">>

-----------------------------------------------------------------------------
(* int(text) and str(n).                                                   *)

DigitChars == <<"0", "1", "2", "3", "4", "5", "6", "7", "8", "9">>

IsDigit(c) == \E i \in 1..10 : DigitChars[i] = c

DigitVal(c) == (CHOOSE i \in 1..10 : DigitChars[i] = c) - 1

RECURSIVE LStrip(_)
LStrip(s) == IF s # <<>> /\ Head(s) = " " THEN LStrip(Tail(s)) ELSE s

RECURSIVE RStrip(_)
RStrip(s) ==
    IF s # <<>> /\ s[Len(s)] = " " THEN RStrip(SubSeq(s, 1, Len(s) - 1)) ELSE s

Strip(s) == RStrip(LStrip(s))

\* The digits of an integer literal, after the sign: digits, with single
\* underscores allowed between two digits.
IsDigitBody(b) ==
    /\ b # <<>>
    /\ \A i \in 1..Len(b) :
          \/ IsDigit(b[i])
          \/ /\ b[i] = "_"
             /\ 1 < i /\ i < Len(b)
             /\ IsDigit(b[i - 1]) /\ IsDigit(b[i + 1])

RECURSIVE DigitsValue(_, _)
DigitsValue(b, acc) ==
    IF b = <<>> THEN acc
    ELSE IF Head(b) = "_" THEN DigitsValue(Tail(b), acc)
    ELSE DigitsValue(Tail(b), 10 * acc + DigitVal(Head(b)))

SignedBody(text) ==
    LET s == Strip(text)
    IN  IF s # <<>> /\ Head(s) \in {"-", "+"} THEN Tail(s) ELSE s

\* int(text) raises ValueError
IntRaises(text) == ~IsDigitBody(SignedBody(text))

\* int(text), when it does not raise
ParseInt(text) ==
    LET s == Strip(text)
    IN  IF Head(s) = "-" THEN 0 - DigitsValue(SignedBody(text), 0)
        ELSE DigitsValue(SignedBody(text), 0)

RECURSIVE NatStr(_)
NatStr(n) ==
    IF n < 10 THEN <<DigitChars[n + 1]>>
    ELSE NatStr(n \div 10) \o <<DigitChars[(n % 10) + 1]>>

\* str(n) of an integer.
Str(n) == IF n < 0 THEN <<"-">> \o NatStr(0 - n) ELSE NatStr(n)

\* s.startswith(p)
StartsWith(s, p) == Len(s) >= Len(p) /\ SubSeq(s, 1, Len(p)) = p

\* str(chat_id).startswith("-100")
IsChannelId(chat_id) == StartsWith(Str(chat_id), <<"-", "1", "0", "0">>)

-----------------------------------------------------------------------------
(* Python lists and insertion-ordered dicts, as sequences.                 *)

InList(x, l) == \E i \in 1..Len(l) : l[i] = x

\* l.remove(x): removes the first occurrence
ListRemove(l, x) ==
    LET i == CHOOSE j \in 1..Len(l) : l[j] = x /\ \A k \in 1..(j - 1) : l[k] # x
    IN  SubSeq(l, 1, i - 1) \o SubSeq(l, i + 1, Len(l))

\* l.pop(i), i zero-based
ListPopAt(l, i) == SubSeq(l, 1, i) \o SubSeq(l, i + 2, Len(l))

\* A dict is a sequence of <<key, value>> pairs with distinct keys.
DictKeys(d) == [i \in 1..Len(d) |-> d[i][1]]

DictHas(d, k) == \E i \in 1..Len(d) : d[i][1] = k

DictGet(d, k, default) ==
    IF DictHas(d, k) THEN d[CHOOSE i \in 1..Len(d) : d[i][1] = k][2] ELSE default

\* d[k] = v: an existing key keeps its position, a new key goes last
DictSet(d, k, v) ==
    IF DictHas(d, k)
    THEN [i \in 1..Len(d) |-> IF d[i][1] = k THEN <<k, v>> ELSE d[i]]
    ELSE Append(d, <<k, v>>)

\* d.pop(k, None)
DictPop(d, k) ==
    IF DictHas(d, k)
    THEN LET i == CHOOSE j \in 1..Len(d) : d[j][1] = k
         IN  SubSeq(d, 1, i - 1) \o SubSeq(d, i + 1, Len(d))
    ELSE d

SeqToSet(s) == {s[i] : i \in 1..Len(s)}

\* The elements of a set in some order (list(set) has no specified order;
\* the order is forgotten again by set(list) on loading).
RECURSIVE SetToList(_)
SetToList(S) ==
    IF S = {} THEN <<>>
    ELSE LET x == CHOOSE y \in S : \A z \in S : y <= z
         IN  <<x>> \o SetToList(S \ {x})

-----------------------------------------------------------------------------
(* Permission checks.                                                      *)

\* a variant that takes every admin for the owner
is_owner_AnyAdmin(user_id) == InList(user_id, ADMIN_IDS)

is_owner(user_id) == user_id = OWNER_ID

\* a variant that knows the owner only
is_admin_OwnerOnly(user_id) == user_id = OWNER_ID

is_admin(user_id) == InList(user_id, ADMIN_IDS)

-----------------------------------------------------------------------------
(* The snapshot file.                                                      *)

\* os.path.dirname(DATA_FILE)
Dirname(path) == IF path = "/data/bot_data.json" THEN "/data" ELSE ""

\* os.makedirs(d, exist_ok=True) raises FileNotFoundError for the empty path
MakedirsRaises(d) == d = ""

\* json.dump writes the integer keys of a dict as strings
JsonObject(d) == [i \in 1..Len(d) |-> <<Str(d[i][1]), d[i][2]>>]

\* {int(k): v for k, v in o.items()}
RECURSIVE FromJsonObject(_, _)
FromJsonObject(o, acc) ==
    IF o = <<>> THEN acc
    ELSE FromJsonObject(Tail(o), DictSet(acc, ParseInt(Head(o)[1]), Head(o)[2]))

\* the dict save_data dumps
Snapshot(admins, free, links, paid, blocked, chats) ==
    [ADMIN_IDS |-> admins,
     FREE_CHANNELS |-> JsonObject(free),
     FREE_CHANNEL_LINKS |-> JsonObject(links),
     PAID_CHANNELS |-> paid,
     BLOCKED_USER_IDS |-> SetToList(blocked),
     ACTIVE_CHATS |-> JsonObject(chats)]

\* save_data(): whether the file gets written (any exception is swallowed)
SaveWrites == ~MakedirsRaises(Dirname(DATA_FILE))

\* save_data(): the file afterwards, given the registry it dumps
save_data(admins, free, links, paid, blocked, chats) ==
    IF SaveWrites THEN File(Snapshot(admins, free, links, paid, blocked, chats))
    ELSE disk

-----------------------------------------------------------------------------
(* Outbound calls and events.                                              *)

Call(op, to, arg, res) == [op |-> op, to |-> to, arg |-> arg, res |-> res]

Res(failed) == IF failed THEN "error" ELSE "ok"

SaveCall == Call("save_data", 0, <<>>, Res(~SaveWrites))

\* The event a handler handled: the handler, the user the event came from,
\* whether the handler ended by raising, and in st what the handler found:
\* the pending step it popped (text messages), the kind of status change
\* (membership notifications), the gate's refusal (start command).  A
\* membership notification is about a user, who need not be its sender.
Event(h, u, st, raised) ==
    [h |-> h, u |-> u, st |-> st, raised |-> raised, about |-> NoUser]

EmptyUserData ==
    [next_step |-> None, new_channel_name |-> NoText, new_channel_link |-> NoText]

\* A fan-out loop suspended at an outbound call: the handler it belongs to
\* (kind), the admin who posts or the user who is kicked (u), the text
\* posted, the keys of FREE_CHANNELS when the loop began (at), the key whose
\* call is pending (cur), the number of keys the iterator has handed out
\* (pos), the size the iterator remembers (used) and the calls that have
\* returned (done).  While handlers run one
\* at a time no fan-out is ever suspended.
NoTask ==
    [kind |-> "none", u |-> NoUser, text |-> NoText, at |-> <<>>, cur |-> 0,
     pos |-> 0, used |-> 0, done |-> <<>>]

-----------------------------------------------------------------------------
(* Start-up.                                                               *)

\* ADMIN_IDS as the module computes it from the environment
AdminIdsAtImport(env) ==
    IF OWNER_ID # 0 /\ ~InList(OWNER_ID, env) THEN Append(env, OWNER_ID) ELSE env

\* The ADMIN_IDS environment lists considered.
EnvAdminLists == {<<>>}

\* The DATA_FILE paths considered: the default without /data, and the
\* default with /data.
DataFilePaths == {"bot_data.json", "/data/bot_data.json"}

\* line 638: the rendered entry, the markup kept as whole tokens
HtmlEntry(link, name) ==
    <<"<a href='">> \o link \o <<"'>", "<code>">> \o name \o <<"</code>", "</a>">>

\* A snapshot left by an earlier run of this configuration.
FileOfEarlierRun ==
    [ADMIN_IDS |-> <<1, 2>>,
     FREE_CHANNELS |-> <<<<T_c1, T_A>>, <<T_c2, T_B>>>>,
     FREE_CHANNEL_LINKS |-> <<<<T_c1, T_L>>, <<T_c2, T_L>>>>,
     PAID_CHANNELS |-> <<HtmlEntry(T_L, T_A)>>,
     BLOCKED_USER_IDS |-> <<3>>,
     ACTIVE_CHATS |-> <<<<T_c1, T_A>>>>]

\* A snapshot left by an earlier run that was configured with user 2 as
\* its owner.
FileOfOtherOwner ==
    [ADMIN_IDS |-> <<2>>,
     FREE_CHANNELS |-> <<<<T_c1, T_A>>>>,
     FREE_CHANNEL_LINKS |-> <<<<T_c1, T_L>>>>,
     PAID_CHANNELS |-> <<>>,
     BLOCKED_USER_IDS |-> <<3>>,
     ACTIVE_CHATS |-> <<>>]

InitFiles == {NoFile, File(FileOfOtherOwner), File(FileOfEarlierRun)}

\* A snapshot left by an earlier run in which the owner added one channel.
FileOfOneChannel ==
    [ADMIN_IDS |-> <<1>>,
     FREE_CHANNELS |-> <<<<T_c1, T_A>>>>,
     FREE_CHANNEL_LINKS |-> <<<<T_c1, T_L>>>>,
     PAID_CHANNELS |-> <<>>,
     BLOCKED_USER_IDS |-> <<>>,
     ACTIVE_CHATS |-> <<>>]

\* A snapshot left by an earlier run in which the owner made user 2 an
\* admin and blocked user 3, before any channel was added.
FileOfTwoAdmins ==
    [ADMIN_IDS |-> <<1, 2>>,
     FREE_CHANNELS |-> <<>>,
     FREE_CHANNEL_LINKS |-> <<>>,
     PAID_CHANNELS |-> <<>>,
     BLOCKED_USER_IDS |-> <<3>>,
     ACTIVE_CHATS |-> <<>>]

\* The state when the module has been imported, the snapshot file being one
\* of files.
InitWith(files) ==
    /\ pc = "boot"
    /\ DATA_FILE \in DataFilePaths
    /\ disk \in files
    /\ \E env \in EnvAdminLists : ADMIN_IDS = AdminIdsAtImport(env)
    /\ FREE_CHANNELS = <<>>
    /\ FREE_CHANNEL_LINKS = <<>>
    /\ PAID_CHANNELS = <<>>
    /\ BLOCKED_USER_IDS = {}
    /\ ACTIVE_CHATS = <<>>
    /\ USER_DATA = <<>>
    /\ user_data = [u \in Users |-> EmptyUserData]
    /\ ev = Event("import", NoUser, None, FALSE)
    /\ calls = <<>>
    /\ task = NoTask

\* main(): load_data()
LoadData ==
    /\ pc = "boot"
    /\ pc' = "run"
    /\ ev' = Event("load_data", NoUser, None, FALSE)
    /\ IF disk = NoFile
       THEN /\ disk' = save_data(ADMIN_IDS, FREE_CHANNELS, FREE_CHANNEL_LINKS,
                                 PAID_CHANNELS, BLOCKED_USER_IDS, ACTIVE_CHATS)
            /\ calls' = <<SaveCall>>
            /\ UNCHANGED registry
       ELSE /\ ADMIN_IDS' = disk[1].ADMIN_IDS
            /\ FREE_CHANNELS' = FromJsonObject(disk[1].FREE_CHANNELS, <<>>)
            /\ FREE_CHANNEL_LINKS' = FromJsonObject(disk[1].FREE_CHANNEL_LINKS, <<>>)
            /\ PAID_CHANNELS' = disk[1].PAID_CHANNELS
            /\ BLOCKED_USER_IDS' = SeqToSet(disk[1].BLOCKED_USER_IDS)
            /\ ACTIVE_CHATS' = FromJsonObject(disk[1].ACTIVE_CHATS, <<>>)
            /\ calls' = <<>>
            /\ UNCHANGED disk
    /\ UNCHANGED <<DATA_FILE, USER_DATA, user_data, task>>

\* The process ends and a fresh one starts: the module is imported again (the
\* in-memory structures are back at their import values, the user directory
\* and every context.user_data are gone) and main() runs load_data().
Restart ==
    /\ pc = "run"
    /\ ev' = Event("restart", NoUser, None, FALSE)
    /\ USER_DATA' = <<>>
    /\ user_data' = [u \in Users |-> EmptyUserData]
    /\ IF disk = NoFile
       THEN /\ \E env \in EnvAdminLists : ADMIN_IDS' = AdminIdsAtImport(env)
            /\ FREE_CHANNELS' = <<>>
            /\ FREE_CHANNEL_LINKS' = <<>>
            /\ PAID_CHANNELS' = <<>>
            /\ BLOCKED_USER_IDS' = {}
            /\ ACTIVE_CHATS' = <<>>
            /\ disk' = save_data(ADMIN_IDS', <<>>, <<>>, <<>>, {}, <<>>)
            /\ calls' = <<SaveCall>>
       ELSE /\ ADMIN_IDS' = disk[1].ADMIN_IDS
            /\ FREE_CHANNELS' = FromJsonObject(disk[1].FREE_CHANNELS, <<>>)
            /\ FREE_CHANNEL_LINKS' = FromJsonObject(disk[1].FREE_CHANNEL_LINKS, <<>>)
            /\ PAID_CHANNELS' = disk[1].PAID_CHANNELS
            /\ BLOCKED_USER_IDS' = SeqToSet(disk[1].BLOCKED_USER_IDS)
            /\ ACTIVE_CHATS' = FromJsonObject(disk[1].ACTIVE_CHATS, <<>>)
            /\ calls' = <<>>
            /\ UNCHANGED disk
    /\ task' = NoTask
    /\ UNCHANGED <<pc, DATA_FILE>>

-----------------------------------------------------------------------------
(* handle_text_input: one action per branch on the pending step.           *)

\* The texts sent as an answer, by the step they answer.
MessageTexts == {T_hi}
UserIdTexts == {T_1, T_2, T_x}
NameTexts == {T_A, T_B}
LinkTexts == {T_L}
ChatIdTexts == {T_c1, T_c2, T_7, T_x}
IndexTexts == {T_0, T_1, T_2, T_3, T_c1, T_x}

\* The longest PAID_CHANNELS list the model lets the wizard build.
MaxPaid == 1

AdminSteps == {"awaiting_add_admin_id", "awaiting_remove_admin_id",
               "awaiting_block_user_id", "awaiting_unblock_user_id"}

\* a variant with one user_data shared by every user
PopStep_Everyone(u) ==
    [a \in Users |-> [user_data[a] EXCEPT !.next_step = None]]

\* context.user_data.pop('next_step') of user u
PopStep(u) == [user_data EXCEPT ![u].next_step = None]

Reply(u, msg, failed) == Call("reply_text", u, msg, Res(failed))

\* a variant that does not look at the sender's role
Answering_AnyUser(u, st) ==
    /\ pc = "run"
    /\ user_data[u].next_step = st

\* the guard of line 519 passed, and the popped step is st
Answering(u, st) ==
    /\ pc = "run"
    /\ is_admin(u)
    /\ user_data[u].next_step = st

\* line 519: not an admin, or no pending step
TextIgnored(u, text) ==
    /\ pc = "run"
    /\ ~is_admin(u) \/ user_data[u].next_step = None
    /\ ev' = Event("text", u, None, FALSE)
    /\ calls' = <<>>
    /\ UNCHANGED <<pc, task, DATA_FILE, disk, registry, USER_DATA, user_data>>

\* the for loop of the fan-outs: one send per target, failures counted
RECURSIVE SendLoop(_, _, _)
SendLoop(targets, text, sendFail) ==
    IF targets = <<>> THEN <<>>
    ELSE <<Call("send_message", Head(targets), text, Res(Head(targets) \in sendFail))>>
         \o SendLoop(Tail(targets), text, sendFail)

CountRes(cs, res) == Cardinality({i \in 1..Len(cs) : cs[i].res = res})

\* line 527
active_users ==
    SelectSeq(DictKeys(USER_DATA),
              LAMBDA uid : ~InList(uid, ADMIN_IDS) /\ uid \notin BLOCKED_USER_IDS)

\* lines 526-536; r1, r2: the first, the last reply raises
BroadcastCalls(u, targets, text, sendFail, r1, r2) ==
    LET sends == SendLoop(targets, text, sendFail)
    IN  <<Reply(u, <<"broadcast_start", Len(targets)>>, r1)>>
        \o (IF r1 THEN <<>>
            ELSE sends \o <<Reply(u, <<"broadcast_done", CountRes(sends, "ok"),
                                       CountRes(sends, "error")>>, r2)>>)

TextBroadcast(u, text, sendFail, r1, r2) ==
    /\ Answering(u, "awaiting_broadcast_message")
    /\ user_data' = PopStep(u)
    /\ calls' = BroadcastCalls(u, active_users, text, sendFail, r1, r2)
    /\ ev' = Event("text", u, "awaiting_broadcast_message", r1 \/ r2)
    /\ UNCHANGED <<pc, task, DATA_FILE, disk, registry, USER_DATA>>

\* lines 538-548; r: the report reply raises
PostCalls(u, targets, text, sendFail, r) ==
    LET sends == SendLoop(targets, text, sendFail)
    IN  sends \o <<Reply(u, <<"post_done", CountRes(sends, "ok"),
                              CountRes(sends, "error")>>, r)>>

TextPost(u, text, sendFail, r) ==
    /\ Answering(u, "awaiting_post_message")
    /\ user_data' = PopStep(u)
    /\ calls' = PostCalls(u, DictKeys(FREE_CHANNELS), text, sendFail, r)
    /\ ev' = Event("text", u, "awaiting_post_message", r)
    /\ UNCHANGED <<pc, task, DATA_FILE, disk, registry, USER_DATA>>

\* lines 555-580: the lists after the answer target_id to step st, and the reply
AdminAnswer(st, target_id) ==
    LET same == [admins |-> ADMIN_IDS, blocked |-> BLOCKED_USER_IDS]
    IN  CASE st = "awaiting_add_admin_id" ->
               IF ~InList(target_id, ADMIN_IDS)
               THEN [same EXCEPT !.admins = Append(ADMIN_IDS, target_id)]
                    @@ [msg |-> "admin_added"]
               ELSE same @@ [msg |-> "already_admin"]
          [] st = "awaiting_remove_admin_id" ->
               IF target_id = OWNER_ID
               THEN same @@ [msg |-> "cannot_remove_owner"]
               ELSE IF InList(target_id, ADMIN_IDS)
               THEN [same EXCEPT !.admins = ListRemove(ADMIN_IDS, target_id)]
                    @@ [msg |-> "admin_removed"]
               ELSE same @@ [msg |-> "not_an_admin"]
          [] st = "awaiting_block_user_id" ->
               IF target_id = OWNER_ID \/ InList(target_id, ADMIN_IDS)
               THEN same @@ [msg |-> "cannot_block_admin"]
               ELSE [same EXCEPT !.blocked = BLOCKED_USER_IDS \cup {target_id}]
                    @@ [msg |-> "user_blocked"]
          [] st = "awaiting_unblock_user_id" ->
               IF target_id \in BLOCKED_USER_IDS
               THEN [same EXCEPT !.blocked = BLOCKED_USER_IDS \ {target_id}]
                    @@ [msg |-> "user_unblocked"]
               ELSE same @@ [msg |-> "not_blocked"]

\* lines 551-583; r: the reply raises
TextAdminMgmt(u, st, text, r) ==
    /\ st \in AdminSteps
    /\ Answering(u, st)
    /\ user_data' = PopStep(u)
    /\ IF ~is_owner(u)
       THEN /\ calls' = <<>>
            /\ ev' = Event("text", u, st, FALSE)
            /\ UNCHANGED <<disk, registry>>
       ELSE IF IntRaises(text)
       THEN /\ calls' = <<Reply(u, <<"invalid_user_id">>, r)>>
            /\ ev' = Event("text", u, st, r)
            /\ UNCHANGED <<disk, registry>>
       ELSE LET a == AdminAnswer(st, ParseInt(text))
            IN  /\ ADMIN_IDS' = a.admins
                /\ BLOCKED_USER_IDS' = a.blocked
                /\ UNCHANGED <<FREE_CHANNELS, FREE_CHANNEL_LINKS, PAID_CHANNELS>>
                /\ ev' = Event("text", u, st, r)
                /\ IF r
                   THEN /\ calls' = <<Reply(u, <<a.msg>>, r)>>
                        /\ UNCHANGED disk
                   ELSE /\ calls' = <<Reply(u, <<a.msg>>, r), SaveCall>>
                        /\ disk' = save_data(a.admins, FREE_CHANNELS, FREE_CHANNEL_LINKS,
                                             PAID_CHANNELS, a.blocked, ACTIVE_CHATS)
    /\ UNCHANGED <<pc, task, DATA_FILE, ACTIVE_CHATS, USER_DATA>>

\* lines 586-589; r: the reply raises
TextFreeName(u, text, r) ==
    /\ Answering(u, "awaiting_free_channel_name")
    /\ user_data' = [user_data EXCEPT ![u].new_channel_name = text,
                                      ![u].next_step = "awaiting_free_channel_link"]
    /\ calls' = <<Reply(u, <<"send_link">>, r)>>
    /\ ev' = Event("text", u, "awaiting_free_channel_name", r)
    /\ UNCHANGED <<pc, task, DATA_FILE, disk, registry, USER_DATA>>

\* a variant that takes the name out of the accumulator, as the link step of
\* the paid wizard does
TextFreeLink_PopsName(u, text, r) ==
    /\ Answering(u, "awaiting_free_channel_link")
    /\ user_data' = [user_data EXCEPT ![u].new_channel_name = NoText,
                                      ![u].new_channel_link = text,
                                      ![u].next_step = "awaiting_free_channel_chat_id"]
    /\ calls' = <<Reply(u, <<"send_chat_id">>, r)>>
    /\ ev' = Event("text", u, "awaiting_free_channel_link", r)
    /\ UNCHANGED <<pc, task, DATA_FILE, disk, registry, USER_DATA>>

\* lines 591-594
TextFreeLink(u, text, r) ==
    /\ Answering(u, "awaiting_free_channel_link")
    /\ user_data' = [user_data EXCEPT ![u].new_channel_link = text,
                                      ![u].next_step = "awaiting_free_channel_chat_id"]
    /\ calls' = <<Reply(u, <<"send_chat_id">>, r)>>
    /\ ev' = Event("text", u, "awaiting_free_channel_link", r)
    /\ UNCHANGED <<pc, task, DATA_FILE, disk, registry, USER_DATA>>

\* line 605: name and link (None and the empty string are falsy)
Truthy(text) == text # NoText

\* lines 599-613: what the chat id answer does
ChatIdOutcome(text, name, link) ==
    IF IntRaises(text) THEN "numbers_only"
    ELSE IF ~IsChannelId(ParseInt(text)) THEN "must_start_with_100"
    ELSE IF Truthy(name) /\ Truthy(link) THEN "channel_added"
    ELSE "info_missing"

\* lines 596-613
TextFreeChatId(u, text, r) ==
    /\ Answering(u, "awaiting_free_channel_chat_id")
    /\ LET name == user_data[u].new_channel_name
           link == user_data[u].new_channel_link
           out == ChatIdOutcome(text, name, link)
       IN  /\ user_data' = [user_data EXCEPT ![u].next_step = None,
                                             ![u].new_channel_name = NoText,
                                             ![u].new_channel_link = NoText]
           /\ ev' = Event("text", u, "awaiting_free_channel_chat_id", r)
           /\ IF out = "channel_added"
              THEN LET free == DictSet(FREE_CHANNELS, ParseInt(text), name)
                       links == DictSet(FREE_CHANNEL_LINKS, ParseInt(text), link)
                   IN  /\ FREE_CHANNELS' = free
                       /\ FREE_CHANNEL_LINKS' = links
                       /\ disk' = save_data(ADMIN_IDS, free, links, PAID_CHANNELS,
                                            BLOCKED_USER_IDS, ACTIVE_CHATS)
                       /\ calls' = <<SaveCall, Reply(u, <<out>>, r)>>
                       /\ UNCHANGED <<ADMIN_IDS, PAID_CHANNELS, BLOCKED_USER_IDS>>
              ELSE /\ calls' = <<Reply(u, <<out>>, r)>>
                   /\ UNCHANGED <<disk, registry>>
    /\ UNCHANGED <<pc, task, DATA_FILE, ACTIVE_CHATS, USER_DATA>>

\* lines 619, 646: 0 <= index < len
\* a variant that refuses the first entry
IndexInRange_FromSecond(index, len) == 1 <= index /\ index < len

IndexInRange(index, len) == 0 <= index /\ index < len

\* a variant that leaves the link of the removed channel behind
TextRemoveFree_KeepsLink(u, text, r) ==
    /\ Answering(u, "awaiting_remove_free_channel_num")
    /\ user_data' = PopStep(u)
    /\ ev' = Event("text", u, "awaiting_remove_free_channel_num", r)
    /\ IF IntRaises(text)
       THEN /\ calls' = <<Reply(u, <<"send_a_number">>, r)>>
            /\ UNCHANGED <<disk, registry>>
       ELSE LET index_to_remove == ParseInt(text) - 1
                channel_ids == DictKeys(FREE_CHANNELS)
            IN  IF IndexInRange(index_to_remove, Len(channel_ids))
                THEN LET removed_channel_id == channel_ids[index_to_remove + 1]
                         free == DictPop(FREE_CHANNELS, removed_channel_id)
                         links == FREE_CHANNEL_LINKS
                     IN  /\ FREE_CHANNELS' = free
                         /\ FREE_CHANNEL_LINKS' = links
                         /\ disk' = save_data(ADMIN_IDS, free, links, PAID_CHANNELS,
                                              BLOCKED_USER_IDS, ACTIVE_CHATS)
                         /\ calls' = <<SaveCall, Reply(u, <<"channel_removed">>, r)>>
                         /\ UNCHANGED <<ADMIN_IDS, PAID_CHANNELS, BLOCKED_USER_IDS>>
                ELSE /\ calls' = <<Reply(u, <<"invalid_number">>, r)>>
                     /\ UNCHANGED <<disk, registry>>
    /\ UNCHANGED <<pc, task, DATA_FILE, ACTIVE_CHATS, USER_DATA>>

\* lines 615-628
TextRemoveFree(u, text, r) ==
    /\ Answering(u, "awaiting_remove_free_channel_num")
    /\ user_data' = PopStep(u)
    /\ ev' = Event("text", u, "awaiting_remove_free_channel_num", r)
    /\ IF IntRaises(text)
       THEN /\ calls' = <<Reply(u, <<"send_a_number">>, r)>>
            /\ UNCHANGED <<disk, registry>>
       ELSE LET index_to_remove == ParseInt(text) - 1
                channel_ids == DictKeys(FREE_CHANNELS)
            IN  IF IndexInRange(index_to_remove, Len(channel_ids))
                THEN LET removed_channel_id == channel_ids[index_to_remove + 1]
                         free == DictPop(FREE_CHANNELS, removed_channel_id)
                         links == DictPop(FREE_CHANNEL_LINKS, removed_channel_id)
                     IN  /\ FREE_CHANNELS' = free
                         /\ FREE_CHANNEL_LINKS' = links
                         /\ disk' = save_data(ADMIN_IDS, free, links, PAID_CHANNELS,
                                              BLOCKED_USER_IDS, ACTIVE_CHATS)
                         /\ calls' = <<SaveCall, Reply(u, <<"channel_removed">>, r)>>
                         /\ UNCHANGED <<ADMIN_IDS, PAID_CHANNELS, BLOCKED_USER_IDS>>
                ELSE /\ calls' = <<Reply(u, <<"invalid_number">>, r)>>
                     /\ UNCHANGED <<disk, registry>>
    /\ UNCHANGED <<pc, task, DATA_FILE, ACTIVE_CHATS, USER_DATA>>

\* a variant that adds the entry as soon as the name is known
TextPaidName_AppendsAtOnce(u, text, r) ==
    /\ Answering(u, "awaiting_paid_channel_name")
    /\ Len(PAID_CHANNELS) < MaxPaid
    /\ LET paid == Append(PAID_CHANNELS, HtmlEntry(NoText, text))
       IN  /\ user_data' = [user_data EXCEPT ![u].new_channel_name = text,
                                             ![u].next_step = "awaiting_paid_channel_link"]
           /\ PAID_CHANNELS' = paid
           /\ disk' = save_data(ADMIN_IDS, FREE_CHANNELS, FREE_CHANNEL_LINKS, paid,
                                BLOCKED_USER_IDS, ACTIVE_CHATS)
           /\ calls' = <<SaveCall, Reply(u, <<"send_link">>, r)>>
    /\ ev' = Event("text", u, "awaiting_paid_channel_name", r)
    /\ UNCHANGED <<pc, task, DATA_FILE, ADMIN_IDS, FREE_CHANNELS, FREE_CHANNEL_LINKS,
                   BLOCKED_USER_IDS, ACTIVE_CHATS, USER_DATA>>

\* lines 630-633
TextPaidName(u, text, r) ==
    /\ Answering(u, "awaiting_paid_channel_name")
    /\ user_data' = [user_data EXCEPT ![u].new_channel_name = text,
                                      ![u].next_step = "awaiting_paid_channel_link"]
    /\ calls' = <<Reply(u, <<"send_link">>, r)>>
    /\ ev' = Event("text", u, "awaiting_paid_channel_name", r)
    /\ UNCHANGED <<pc, task, DATA_FILE, disk, registry, USER_DATA>>

\* lines 635-641
TextPaidLink(u, text, r) ==
    /\ Answering(u, "awaiting_paid_channel_link")
    /\ Len(PAID_CHANNELS) < MaxPaid
    /\ LET popped == user_data[u].new_channel_name
           name == IF popped = NoText THEN <<"N", "/", "A">> ELSE popped
           paid == Append(PAID_CHANNELS, HtmlEntry(text, name))
       IN  /\ user_data' = [user_data EXCEPT ![u].next_step = None,
                                             ![u].new_channel_name = NoText]
           /\ PAID_CHANNELS' = paid
           /\ disk' = save_data(ADMIN_IDS, FREE_CHANNELS, FREE_CHANNEL_LINKS, paid,
                                BLOCKED_USER_IDS, ACTIVE_CHATS)
           /\ calls' = <<SaveCall, Reply(u, <<"paid_added">>, r)>>
    /\ ev' = Event("text", u, "awaiting_paid_channel_link", r)
    /\ UNCHANGED <<pc, task, DATA_FILE, ADMIN_IDS, FREE_CHANNELS, FREE_CHANNEL_LINKS,
                   BLOCKED_USER_IDS, ACTIVE_CHATS, USER_DATA>>

\* lines 643-653
TextRemovePaid(u, text, r) ==
    /\ Answering(u, "awaiting_remove_paid_channel_num")
    /\ user_data' = PopStep(u)
    /\ ev' = Event("text", u, "awaiting_remove_paid_channel_num", r)
    /\ IF IntRaises(text)
       THEN /\ calls' = <<Reply(u, <<"send_a_number">>, r)>>
            /\ UNCHANGED <<disk, registry>>
       ELSE LET index_to_remove == ParseInt(text) - 1
            IN  IF IndexInRange(index_to_remove, Len(PAID_CHANNELS))
                THEN LET paid == ListPopAt(PAID_CHANNELS, index_to_remove)
                     IN  /\ PAID_CHANNELS' = paid
                         /\ disk' = save_data(ADMIN_IDS, FREE_CHANNELS,
                                              FREE_CHANNEL_LINKS, paid, BLOCKED_USER_IDS, ACTIVE_CHATS)
                         /\ calls' = <<SaveCall, Reply(u, <<"paid_removed">>, r)>>
                         /\ UNCHANGED <<ADMIN_IDS, FREE_CHANNELS, FREE_CHANNEL_LINKS,
                                        BLOCKED_USER_IDS>>
                ELSE /\ calls' = <<Reply(u, <<"invalid_number">>, r)>>
                     /\ UNCHANGED <<disk, registry>>
    /\ UNCHANGED <<pc, task, DATA_FILE, ACTIVE_CHATS, USER_DATA>>

-----------------------------------------------------------------------------
(* The Membership Gate and the Cascading Removal Worker.                   *)

MemberLike == {"creator", "administrator", "member"}
Removed == {"left", "kicked"}

\* What get_chat_member answers: a status, or "error" when the call raises.
LookupOutcomes == MemberLike \cup Removed \cup {"restricted", "error"}

\* a variant that looks every user up, admins included
is_user_member_of_channel_NoBypass(user_id, o) ==
    [result |-> is_admin(user_id) \/ o \in MemberLike,
     calls |-> <<Call("get_chat_member", MANDATORY_CHANNEL_ID, <<user_id>>, o)>>]

\* lines 133-140; o: the outcome of the lookup, if one is made
is_user_member_of_channel(user_id, o) ==
    IF is_admin(user_id)
    THEN [result |-> TRUE, calls |-> <<>>]
    ELSE [result |-> o \in MemberLike,
          calls |-> <<Call("get_chat_member", MANDATORY_CHANNEL_ID, <<user_id>>, o)>>]

\* a variant of the loop that bans on every channel first and unbans after
RECURSIVE KickLoop_BansFirst(_, _, _, _)
KickLoop_BansFirst(channel_ids, user_id, banFail, unbanFail) ==
    IF channel_ids = <<>> THEN <<>>
    ELSE LET c == Head(channel_ids)
             ban == Call("ban_chat_member", c, <<user_id>>, Res(c \in banFail))
             unban == Call("unban_chat_member", c, <<user_id>>, Res(c \in unbanFail))
         IN  <<ban>>
             \o KickLoop_BansFirst(Tail(channel_ids), user_id, banFail, unbanFail)
             \o (IF c \in banFail THEN <<>> ELSE <<unban>>)

\* lines 146-152: the loop over the channel ids; a ban that raises skips the
\* unban of that channel, and the loop goes on
RECURSIVE KickLoop(_, _, _, _)
KickLoop(channel_ids, user_id, banFail, unbanFail) ==
    IF channel_ids = <<>> THEN <<>>
    ELSE LET c == Head(channel_ids)
             ban == Call("ban_chat_member", c, <<user_id>>, Res(c \in banFail))
             unban == Call("unban_chat_member", c, <<user_id>>, Res(c \in unbanFail))
         IN  (IF c \in banFail THEN <<ban>> ELSE <<ban, unban>>)
             \o KickLoop(Tail(channel_ids), user_id, banFail, unbanFail)

\* a variant whose loop ends at the first channel whose ban or unban fails
remove_user_from_free_channels_StopAtFailure(user_id, banFail, unbanFail) ==
    LET ids == DictKeys(FREE_CHANNELS)
        failing == {i \in 1..Len(ids) : ids[i] \in banFail \cup unbanFail}
        last == IF failing = {} THEN Len(ids)
                ELSE CHOOSE i \in failing : \A j \in failing : i <= j
    IN  IF is_admin(user_id) THEN <<>>
        ELSE KickLoop(SubSeq(ids, 1, last), user_id, banFail, unbanFail)

\* lines 142-152: the calls the worker issues
remove_user_from_free_channels(user_id, banFail, unbanFail) ==
    IF is_admin(user_id) THEN <<>>
    ELSE KickLoop(DictKeys(FREE_CHANNELS), user_id, banFail, unbanFail)

\* The ways the ban and unban calls of one run can fail.
KickFailures ==
    LET ids == SeqToSet(DictKeys(FREE_CHANNELS))
    IN  {f \in [ban : SUBSET ids, unban : SUBSET ids] : f.ban \cap f.unban = {}}

-----------------------------------------------------------------------------
(* Commands.                                                               *)

\* line 209: the profile kept for a user
Profile(u) == <<"profile", u>>

\* lines 204-233; o: the lookup's outcome, f: the kick failures, r: the reply raises
StartCommand(u, o, f, r) ==
    /\ pc = "run"
    /\ IF u \in BLOCKED_USER_IDS
       THEN /\ calls' = <<>>
            /\ ev' = Event("start", u, None, FALSE)
            /\ UNCHANGED USER_DATA
       ELSE LET directory == DictSet(USER_DATA, u, Profile(u))
                gate == is_user_member_of_channel(u, o)
            IN  /\ USER_DATA' = directory
                /\ ev' = Event("start", u,
                               IF ~is_owner(u) /\ ~is_admin(u) /\ ~gate.result
                               THEN "not_member" ELSE None, r)
                /\ calls' =
                     IF is_owner(u) THEN <<Reply(u, <<"owner_menu">>, r)>>
                     ELSE IF is_admin(u) THEN <<Reply(u, <<"admin_menu">>, r)>>
                     ELSE IF gate.result
                     THEN gate.calls \o <<Reply(u, <<"member_menu">>, r)>>
                     ELSE gate.calls
                          \o (IF DictHas(directory, u)
                              THEN remove_user_from_free_channels(u, f.ban, f.unban)
                              ELSE <<>>)
                          \o <<Reply(u, <<"join_prompt">>, r)>>
    /\ UNCHANGED <<pc, task, DATA_FILE, disk, registry, user_data>>

\* lines 235-248
HelpCommand(u, o, r) ==
    /\ pc = "run"
    /\ IF u \in BLOCKED_USER_IDS
       THEN /\ calls' = <<>>
            /\ ev' = Event("help", u, None, FALSE)
       ELSE LET gate == is_user_member_of_channel(u, o)
            IN  /\ ev' = Event("help", u, None, r)
                /\ calls' =
                     IF is_admin(u) THEN <<Reply(u, <<"help_admin">>, r)>>
                     ELSE IF gate.result
                     THEN gate.calls \o <<Reply(u, <<"help_member">>, r)>>
                     ELSE gate.calls \o <<Reply(u, <<"help_join_first">>, r)>>
    /\ UNCHANGED <<pc, task, DATA_FILE, disk, registry, USER_DATA, user_data>>

-----------------------------------------------------------------------------
(* Membership-change notifications about users.                            *)

\* The chats a notification from user u can be about: the mandatory channel,
\* the private chat with u, another channel.
ChatsOf(u) == {[id |-> MANDATORY_CHANNEL_ID, type |-> "channel"],
               [id |-> u, type |-> "private"],
               [id |-> -1001, type |-> "channel"]}

\* The status changes considered.
OldStatuses == {"member", "left"}
NewStatuses == {"left", "kicked", "member"}

\* lines 180-189: what a notification reports
StatusChange(old, new, chat) ==
    IF ~(old \in MemberLike /\ new \in Removed) THEN None
    ELSE IF chat.id = MANDATORY_CHANNEL_ID THEN "left_mandatory"
    ELSE IF chat.type = "private" THEN "blocked_bot"
    ELSE None

\* a variant without the try block around the send to the log channel
TrackUserStatus_LogFailureAborts(actor, affected, old, new, chat, f, logFail) ==
    /\ pc = "run"
    /\ ev' = [Event("chat_member", actor, StatusChange(old, new, chat), logFail)
              EXCEPT !.about = affected]
    /\ IF is_admin(actor) \/ StatusChange(old, new, chat) = None
       THEN /\ calls' = <<>>
            /\ UNCHANGED USER_DATA
       ELSE IF chat.id = MANDATORY_CHANNEL_ID
       THEN /\ calls' = remove_user_from_free_channels(actor, f.ban, f.unban)
            /\ UNCHANGED USER_DATA
       ELSE /\ USER_DATA' = DictPop(USER_DATA, actor)
            /\ calls' = <<Call("send_message", LOG_CHANNEL_ID, <<"user_blocked_bot", actor>>,
                               Res(logFail))>>
                        \o (IF logFail THEN <<>>
                            ELSE remove_user_from_free_channels(actor, f.ban, f.unban))
    /\ UNCHANGED <<pc, task, DATA_FILE, disk, registry, user_data>>

\* lines 174-201; actor: result.from_user, who made the change; affected:
\* result.new_chat_member.user, whose status changed; f: the kick failures,
\* logFail: the send to the log channel raises
TrackUserStatus(actor, affected, old, new, chat, f, logFail) ==
    /\ pc = "run"
    /\ ev' = [Event("chat_member", actor, StatusChange(old, new, chat), FALSE)
              EXCEPT !.about = affected]
    /\ IF is_admin(actor) \/ StatusChange(old, new, chat) = None
       THEN /\ calls' = <<>>
            /\ UNCHANGED USER_DATA
       ELSE IF chat.id = MANDATORY_CHANNEL_ID
       THEN /\ calls' = remove_user_from_free_channels(actor, f.ban, f.unban)
            /\ UNCHANGED USER_DATA
       ELSE /\ USER_DATA' = DictPop(USER_DATA, actor)
            /\ calls' = <<Call("send_message", LOG_CHANNEL_ID, <<"user_blocked_bot", actor>>,
                               Res(logFail))>>
                        \o remove_user_from_free_channels(actor, f.ban, f.unban)
    /\ UNCHANGED <<pc, task, DATA_FILE, disk, registry, user_data>>

\* The chats the bot can be added to or removed from, and the statuses a
\* notification about the bot can carry.
BotChats == {[id |-> -1001, title |-> T_A], [id |-> -1003, title |-> T_B]}
BotStatuses == {"member", "administrator", "left", "kicked", "restricted"}

\* lines 155-172; actor: the user who changed the bot's status in chat
TrackBotStatus(actor, chat, new) ==
    /\ pc = "run"
    /\ ev' = Event("my_chat_member", actor, None, FALSE)
    /\ ACTIVE_CHATS' =
         IF new \in {"member", "administrator"}
         THEN DictSet(ACTIVE_CHATS, chat.id, chat.title)
         ELSE IF new \in Removed /\ DictHas(ACTIVE_CHATS, chat.id)
         THEN DictPop(ACTIVE_CHATS, chat.id)
         ELSE ACTIVE_CHATS
    /\ disk' = save_data(ADMIN_IDS, FREE_CHANNELS, FREE_CHANNEL_LINKS,
                         PAID_CHANNELS, BLOCKED_USER_IDS, ACTIVE_CHATS')
    /\ calls' = <<SaveCall>>
    /\ UNCHANGED <<pc, task, DATA_FILE, ADMIN_IDS, FREE_CHANNELS, FREE_CHANNEL_LINKS,
                   PAID_CHANNELS, BLOCKED_USER_IDS, USER_DATA, user_data>>

-----------------------------------------------------------------------------
(* button_handler.                                                         *)

\* lines 347-358: the data-entry actions and the step each one sets
prompts ==
    [broadcast_msg |-> "awaiting_broadcast_message",
     post_msg |-> "awaiting_post_message",
     add_admin |-> "awaiting_add_admin_id",
     remove_admin |-> "awaiting_remove_admin_id",
     block_user |-> "awaiting_block_user_id",
     unblock_user |-> "awaiting_unblock_user_id",
     add_free_channel_name |-> "awaiting_free_channel_name",
     remove_free_channel |-> "awaiting_remove_free_channel_num",
     add_paid_channel_name |-> "awaiting_paid_channel_name",
     remove_paid_channel |-> "awaiting_remove_paid_channel_num"]

Answer(u, msg, failed) == Call("answer", u, msg, Res(failed))
Edit(u, msg, failed) == Call("edit_message_text", u, msg, Res(failed))

\* lines 264-266: the press of a blocked user
ButtonBlocked(u, r) ==
    /\ pc = "run"
    /\ u \in BLOCKED_USER_IDS
    /\ calls' = <<Answer(u, <<"you_are_blocked">>, r)>>
    /\ ev' = Event("button", u, None, r)
    /\ UNCHANGED <<pc, task, DATA_FILE, disk, registry, USER_DATA, user_data>>

\* lines 269-282: verify_join; fail: the outbound call that raises, if any
ButtonVerifyJoin(u, o, fail) ==
    /\ pc = "run"
    /\ u \notin BLOCKED_USER_IDS
    /\ fail \in {"none", "answer1", "answer2", "edit"}
    /\ LET gate == is_user_member_of_channel(u, o)
       IN  calls' =
             <<Answer(u, <<"checking">>, fail = "answer1")>>
             \o (IF fail = "answer1" THEN <<>>
                 ELSE gate.calls
                      \o (IF gate.result
                          THEN <<Answer(u, <<"welcome">>, fail = "answer2")>>
                               \o (IF fail = "answer2" THEN <<>>
                                   ELSE <<Edit(u, <<"member_menu">>, fail = "edit")>>)
                          ELSE <<Answer(u, <<"not_joined">>, fail = "answer2")>>))
    /\ ev' = Event("button", u, None, calls'[Len(calls')].res = "error")
    /\ UNCHANGED <<pc, task, DATA_FILE, disk, registry, USER_DATA, user_data>>

\* a variant that keeps a step that is already pending
ButtonAsk_KeepPending(u, action, fail) ==
    /\ pc = "run"
    /\ u \notin BLOCKED_USER_IDS
    /\ action \in DOMAIN prompts
    /\ fail \in {"none", "answer", "edit"}
    /\ IF fail = "answer"
       THEN /\ calls' = <<Answer(u, <<>>, TRUE)>>
            /\ UNCHANGED user_data
       ELSE IF ~is_admin(u)
       THEN /\ calls' = <<Answer(u, <<>>, FALSE)>>
            /\ UNCHANGED user_data
       ELSE /\ user_data' =
                 IF user_data[u].next_step = None
                 THEN [user_data EXCEPT ![u].next_step = prompts[action]]
                 ELSE user_data
            /\ calls' = <<Answer(u, <<>>, FALSE), Edit(u, <<"prompt", action>>, fail = "edit")>>
    /\ ev' = Event("button", u, None, calls'[Len(calls')].res = "error")
    /\ UNCHANGED <<pc, task, DATA_FILE, disk, registry, USER_DATA>>

\* lines 310, 344-363: a data-entry action; fail: the outbound call that raises
ButtonAsk(u, action, fail) ==
    /\ pc = "run"
    /\ u \notin BLOCKED_USER_IDS
    /\ action \in DOMAIN prompts
    /\ fail \in {"none", "answer", "edit"}
    /\ IF fail = "answer"
       THEN /\ calls' = <<Answer(u, <<>>, TRUE)>>
            /\ UNCHANGED user_data
       ELSE IF ~is_admin(u)
       THEN /\ calls' = <<Answer(u, <<>>, FALSE)>>
            /\ UNCHANGED user_data
       ELSE /\ user_data' = [user_data EXCEPT ![u].next_step = prompts[action]]
            /\ calls' = <<Answer(u, <<>>, FALSE), Edit(u, <<"prompt", action>>, fail = "edit")>>
    /\ ev' = Event("button", u, None, calls'[Len(calls')].res = "error")
    /\ UNCHANGED <<pc, task, DATA_FILE, disk, registry, USER_DATA>>

\* lines 284-286: get_my_id
ButtonGetMyId(u, r) ==
    /\ pc = "run"
    /\ u \notin BLOCKED_USER_IDS
    /\ calls' = <<Answer(u, <<"your_id", u>>, r)>>
    /\ ev' = Event("button", u, None, r)
    /\ UNCHANGED <<pc, task, DATA_FILE, disk, registry, USER_DATA, user_data>>

\* what the except clause of leave_chat issues (line 307); r: it raises
LeaveFailed(u, r) == Answer(u, <<"leave_failed">>, r)

\* lines 290-308: leave_chat_<chat_id>; fail: the call in the try block that
\* raises, if any; r: the answer of the except clause raises
ButtonLeaveChat(u, chat_id, fail, r) ==
    /\ pc = "run"
    /\ u \notin BLOCKED_USER_IDS
    /\ fail \in {"none", "leave", "answer", "edit"}
    /\ LET leave == Call("leave_chat", chat_id, <<>>, Res(fail = "leave"))
           left == Answer(u, <<"left_chat">>, fail = "answer")
           listed == DictHas(ACTIVE_CHATS, chat_id)
           kept == ~is_owner(u) \/ fail \in {"leave", "answer"} \/ ~listed
           chats == IF kept THEN ACTIVE_CHATS ELSE DictPop(ACTIVE_CHATS, chat_id)
       IN  /\ ACTIVE_CHATS' = chats
           /\ disk' = IF kept THEN disk
                      ELSE save_data(ADMIN_IDS, FREE_CHANNELS, FREE_CHANNEL_LINKS,
                                     PAID_CHANNELS, BLOCKED_USER_IDS, chats)
           /\ calls' =
                IF ~is_owner(u) THEN <<>>
                ELSE IF fail = "leave" THEN <<leave, LeaveFailed(u, r)>>
                ELSE IF fail = "answer" THEN <<leave, left, LeaveFailed(u, r)>>
                ELSE <<leave, left>>
                     \o (IF listed THEN <<SaveCall>> ELSE <<>>)
                     \o <<Edit(u, <<"join_list">>, fail = "edit")>>
                     \o (IF fail = "edit" THEN <<LeaveFailed(u, r)>> ELSE <<>>)
           /\ ev' = Event("button", u, None,
                          is_owner(u) /\ fail # "none" /\ r)
    /\ UNCHANGED <<pc, task, DATA_FILE, ADMIN_IDS, FREE_CHANNELS, FREE_CHANNEL_LINKS,
                   PAID_CHANNELS, BLOCKED_USER_IDS, USER_DATA, user_data>>

\* lines 312-342, 366-485: the tokens that render a menu or a list, and the
\* helper that guards each one ("any": no guard)
MenuGuard ==
    [start_member |-> "any",
     main_menu_owner |-> "any",
     admin_panel |-> "admin",
     owner_panel |-> "owner",
     manage_free_channels |-> "admin",
     manage_paid_channels |-> "admin",
     manage_users |-> "owner",
     list_admins |-> "owner",
     list_users |-> "owner",
     list_blocked_users |-> "owner",
     bot_stats |-> "owner",
     join_list |-> "owner",
     list_free_channels_admin |-> "admin",
     list_paid_channels_admin |-> "admin",
     show_free_channels |-> "any",
     show_paid_channels |-> "any"]

\* the guard of token lets user u through
MenuAllowed(u, token) ==
    CASE MenuGuard[token] = "owner" -> is_owner(u)
      [] MenuGuard[token] = "admin" -> is_admin(u)
      [] OTHER -> TRUE

\* lines 310-342, 366-485: a menu or list token; fail: the call that raises
ButtonMenu(u, token, fail) ==
    /\ pc = "run"
    /\ u \notin BLOCKED_USER_IDS
    /\ token \in DOMAIN MenuGuard
    /\ fail \in {"none", "answer", "edit"}
    /\ calls' =
         IF fail = "answer" THEN <<Answer(u, <<>>, TRUE)>>
         ELSE IF ~MenuAllowed(u, token) THEN <<Answer(u, <<>>, FALSE)>>
         ELSE <<Answer(u, <<>>, FALSE), Edit(u, <<token>>, fail = "edit")>>
    /\ ev' = Event("button", u, None, calls'[Len(calls')].res = "error")
    /\ UNCHANGED <<pc, task, DATA_FILE, disk, registry, USER_DATA, user_data>>

\* lines 310, 488-497: join_free_<chat_id>; fail: the call that raises
ButtonJoinFree(u, chat_id, fail) ==
    /\ pc = "run"
    /\ u \notin BLOCKED_USER_IDS
    /\ fail \in {"none", "answer", "delete", "send"}
    /\ LET link == DictGet(FREE_CHANNEL_LINKS, chat_id, NoText)
           delete == Call("delete_message", u, <<>>, Res(fail = "delete"))
       IN  calls' =
             IF fail = "answer" THEN <<Answer(u, <<>>, TRUE)>>
             ELSE IF fail = "delete" THEN <<Answer(u, <<>>, FALSE), delete>>
             ELSE IF Truthy(link)
             THEN <<Answer(u, <<>>, FALSE), delete,
                    Call("send_message", u, <<"join_free", chat_id>>, Res(fail = "send"))>>
             ELSE <<Answer(u, <<>>, FALSE), delete,
                    Answer(u, <<"no_link">>, fail = "send")>>
    /\ ev' = Event("button", u, None, calls'[Len(calls')].res = "error")
    /\ UNCHANGED <<pc, task, DATA_FILE, disk, registry, USER_DATA, user_data>>

\* line 504: html_entry.split("href='")[1].split("'")[0], NoText standing for
\* the IndexError
EntryLink(html_entry) ==
    LET from == {i \in 1..Len(html_entry) : html_entry[i] = "<a href='"}
        first == CHOOSE i \in from : \A j \in from : i <= j
        to == {i \in 1..Len(html_entry) : i > first /\ html_entry[i] \in {"'>", "'"}}
        last == IF to = {} THEN Len(html_entry) + 1
                ELSE CHOOSE i \in to : \A j \in to : i <= j
    IN  IF from = {} THEN NoText ELSE SubSeq(html_entry, first + 1, last - 1)

\* lines 310, 488-489, 499-512: join_paid_<index>; fail: the call that raises
ButtonJoinPaid(u, index, fail) ==
    /\ pc = "run"
    /\ u \notin BLOCKED_USER_IDS
    /\ fail \in {"none", "answer", "delete", "send"}
    /\ LET delete == Call("delete_message", u, <<>>, Res(fail = "delete"))
           head == <<Answer(u, <<>>, FALSE), delete>>
       IN  calls' =
             IF fail = "answer" THEN <<Answer(u, <<>>, TRUE)>>
             ELSE IF fail = "delete" \/ ~IndexInRange(index, Len(PAID_CHANNELS))
             THEN head
             ELSE IF EntryLink(PAID_CHANNELS[index + 1]) = NoText
             THEN head \o <<Answer(u, <<"no_link">>, fail = "send")>>
             ELSE head \o <<Call("send_message", u, <<"join_paid", index>>,
                                 Res(fail = "send"))>>
    /\ ev' = Event("button", u, None, calls'[Len(calls')].res = "error")
    /\ UNCHANGED <<pc, task, DATA_FILE, disk, registry, USER_DATA, user_data>>

-----------------------------------------------------------------------------
(* Specifications.  The handlers are grouped by the part of the registry   *)
(* they act on; each specification is the bot receiving the events of one  *)
(* group, and Spec is the bot receiving all of them.                       *)

ChannelActions == {"add_free_channel_name", "remove_free_channel",
                   "add_paid_channel_name", "remove_paid_channel"}
AdminActions == {"add_admin", "remove_admin", "block_user", "unblock_user"}
FanoutActions == {"broadcast_msg", "post_msg"}

\* a press of one of the data-entry buttons `actions`
Button(u, actions) ==
    \/ \E a \in actions, fail \in {"none", "answer", "edit"} : ButtonAsk(u, a, fail)
    \/ \E r \in BOOLEAN : ButtonBlocked(u, r)

\* a text message while no step is pending, or from a non-admin
IgnoredText(u) == \E text \in MessageTexts : TextIgnored(u, text)

\* a text message answering a step of a channel wizard
ChannelText(u) ==
    \/ \E text \in NameTexts, r \in BOOLEAN : TextFreeName(u, text, r)
    \/ \E text \in LinkTexts, r \in BOOLEAN : TextFreeLink(u, text, r)
    \/ \E text \in ChatIdTexts, r \in BOOLEAN : TextFreeChatId(u, text, r)
    \/ \E text \in IndexTexts, r \in BOOLEAN : TextRemoveFree(u, text, r)
    \/ \E text \in NameTexts, r \in BOOLEAN : TextPaidName(u, text, r)
    \/ \E text \in LinkTexts, r \in BOOLEAN : TextPaidLink(u, text, r)
    \/ \E text \in IndexTexts, r \in BOOLEAN : TextRemovePaid(u, text, r)

\* a text message answering a step of an admin or block wizard
AdminText(u) ==
    \E st \in AdminSteps, text \in UserIdTexts, r \in BOOLEAN :
       TextAdminMgmt(u, st, text, r)

\* a text message answering the broadcast or the post step
FanoutText(u) ==
    \/ \E text \in MessageTexts, r1, r2 \in BOOLEAN :
          \E sendFail \in SUBSET SeqToSet(active_users) :
             TextBroadcast(u, text, sendFail, r1, r2)
    \/ \E text \in MessageTexts, r \in BOOLEAN :
          \E sendFail \in SUBSET SeqToSet(DictKeys(FREE_CHANNELS)) :
             TextPost(u, text, sendFail, r)

\* The channel wizards.
InitChannels == InitWith({NoFile, File(FileOfOtherOwner)})

NextChannels ==
    \/ LoadData
    \/ \E u \in Users : Button(u, ChannelActions)
    \/ \E u \in Users : IgnoredText(u)
    \/ \E u \in Users : ChannelText(u)

SpecChannels == InitChannels /\ [][NextChannels]_vars

\* The admin and block wizards.
InitAdmins == InitWith({NoFile, File(FileOfOtherOwner)})

NextAdmins ==
    \/ LoadData
    \/ \E u \in Users : Button(u, AdminActions)
    \/ \E u \in Users : IgnoredText(u)
    \/ \E u \in Users : AdminText(u)

SpecAdmins == InitAdmins /\ [][NextAdmins]_vars

\* The gate, the removal worker and the fan-outs.
InitGate == InitWith(InitFiles)

\* The outcomes of the calls a handler makes for user u: one outcome stands
\* for all when the handler does not make the call.
LookupsFor(u) ==
    IF is_admin(u) \/ u \in BLOCKED_USER_IDS THEN {"member"} ELSE LookupOutcomes

KicksFor(u, invoked) ==
    IF invoked /\ ~is_admin(u) THEN KickFailures ELSE {[ban |-> {}, unban |-> {}]}

NextGate ==
    \/ LoadData
    \/ \E u \in Users, r \in BOOLEAN :
          \E o \in LookupsFor(u) :
             \E f \in KicksFor(u, ~is_owner(u) /\ o \notin MemberLike) :
                StartCommand(u, o, f, r)
    \/ \E u \in Users, r \in BOOLEAN :
          \E o \in LookupsFor(u) : HelpCommand(u, o, r)
    \/ \E u \in Users, fail \in {"none", "answer1", "answer2", "edit"} :
          \E o \in LookupsFor(u) : ButtonVerifyJoin(u, o, fail)
    \/ \E actor \in Users, old \in OldStatuses, new \in NewStatuses :
          \E chat \in ChatsOf(actor) :
             \E f \in KicksFor(actor, StatusChange(old, new, chat) # None),
                logFail \in (IF StatusChange(old, new, chat) = "blocked_bot"
                             THEN BOOLEAN ELSE {FALSE}) :
                TrackUserStatus(actor, actor, old, new, chat, f, logFail)
    \/ \E u \in Users : Button(u, FanoutActions)
    \/ \E u \in Users : IgnoredText(u)
    \/ \E u \in Users : FanoutText(u)

SpecGate == InitGate /\ [][NextGate]_vars

\* The bot receiving every event.
Next ==
    \/ NextGate
    \/ \E u \in Users : Button(u, ChannelActions \cup AdminActions)
    \/ \E u \in Users : ChannelText(u)
    \/ \E u \in Users : AdminText(u)

Init == InitWith(InitFiles)

Spec == Init /\ [][Next]_vars

\* The bot's own chats, the snapshot and restarts.
InitChats == InitWith(InitFiles)

\* the chat ids a leave_chat button can carry
LeaveChatIds == {-1001, -1003}

NextChats ==
    \/ LoadData
    \/ Restart
    \/ \E actor \in Users, chat \in BotChats, new \in BotStatuses :
          TrackBotStatus(actor, chat, new)
    \/ \E u \in Users, chat_id \in LeaveChatIds, r \in BOOLEAN,
          fail \in {"none", "leave", "answer", "edit"} :
          ButtonLeaveChat(u, chat_id, fail, r)
    \/ \E u \in Users, fail \in {"none", "answer", "edit"} :
          ButtonMenu(u, "join_list", fail)
    \/ \E u \in Users, r \in BOOLEAN : ButtonBlocked(u, r)

SpecChats == InitChats /\ [][NextChats]_vars

\* The buttons of the member menu.
InitAccess == InitWith(InitFiles)

\* the chat ids a join_free button, the indexes a join_paid button can carry
JoinFreeIds == {-1001, -1003}
JoinPaidIndexes == {0, 1}

NextAccess ==
    \/ LoadData
    \/ \E u \in Users, fail \in {"none", "answer1", "answer2", "edit"} :
          \E o \in LookupsFor(u) : ButtonVerifyJoin(u, o, fail)
    \/ \E u \in Users, token \in DOMAIN MenuGuard, fail \in {"none", "answer", "edit"} :
          ButtonMenu(u, token, fail)
    \/ \E u \in Users, chat_id \in JoinFreeIds,
          fail \in {"none", "answer", "delete", "send"} :
          ButtonJoinFree(u, chat_id, fail)
    \/ \E u \in Users, index \in JoinPaidIndexes,
          fail \in {"none", "answer", "delete", "send"} :
          ButtonJoinPaid(u, index, fail)
    \/ \E u \in Users, r \in BOOLEAN : ButtonGetMyId(u, r)
    \/ \E u \in Users, r \in BOOLEAN : ButtonBlocked(u, r)

SpecAccess == InitAccess /\ [][NextAccess]_vars

\* Membership notifications about a user, sent by that user or by another.
InitNotify == InitWith(InitFiles)

NextNotify ==
    \/ LoadData
    \/ \E actor, affected \in Users, old \in OldStatuses, new \in NewStatuses :
          \E chat \in ChatsOf(affected) :
             \E f \in KicksFor(actor, StatusChange(old, new, chat) # None),
                logFail \in (IF StatusChange(old, new, chat) = "blocked_bot"
                             THEN BOOLEAN ELSE {FALSE}) :
                TrackUserStatus(actor, affected, old, new, chat, f, logFail)

SpecNotify == InitNotify /\ [][NextNotify]_vars

\* Users starting the bot, and blocking it, while a channel exists.
InitStart == InitWith({NoFile, File(FileOfOneChannel)})

NextStart ==
    \/ LoadData
    \/ \E u \in Users, r \in BOOLEAN :
          \E o \in LookupsFor(u) :
             \E f \in KicksFor(u, ~is_owner(u) /\ o \notin MemberLike) :
                StartCommand(u, o, f, r)
    \/ \E actor \in Users, old \in OldStatuses, new \in NewStatuses :
          \E chat \in ChatsOf(actor) :
             \E f \in KicksFor(actor, StatusChange(old, new, chat) # None) :
                TrackUserStatus(actor, actor, old, new, chat, f, FALSE)

SpecStart == InitStart /\ [][NextStart]_vars

\* Roles: the admin and block wizards and the broadcast, with the events
\* that users without a role and the platform send.
InitRoles == InitWith({NoFile, File(FileOfOtherOwner)})

\* the menu tokens pressed
RoleTokens == {"owner_panel", "manage_users", "list_admins", "admin_panel"}

NextRoles ==
    \/ LoadData
    \/ \E u \in Users : Button(u, AdminActions \cup {"broadcast_msg"})
    \/ \E u \in Users, token \in RoleTokens, fail \in {"none", "edit"} :
          ButtonMenu(u, token, fail)
    \/ \E u \in Users, chat_id \in LeaveChatIds :
          ButtonLeaveChat(u, chat_id, "none", FALSE)
    \/ \E u \in Users : IgnoredText(u)
    \/ \E u \in Users : AdminText(u)
    \/ \E u \in Users, text \in MessageTexts, r1 \in BOOLEAN :
          TextBroadcast(u, text, {}, r1, FALSE)
    \/ \E u \in Users, r \in BOOLEAN :
          \E o \in LookupsFor(u) : HelpCommand(u, o, r)
    \/ \E actor \in Users, new \in NewStatuses :
          \E chat \in ChatsOf(actor) :
             TrackUserStatus(actor, actor, "member", new, chat,
                             [ban |-> {}, unban |-> {}], FALSE)

SpecRoles == InitRoles /\ [][NextRoles]_vars

\* Two admins at the free channel wizards.
InitWizards == InitWith({File(FileOfTwoAdmins)})

FreeChannelActions == {"add_free_channel_name", "remove_free_channel"}

\* a text message answering a step of a free channel wizard
FreeChannelText(u) ==
    \/ \E text \in NameTexts, r \in BOOLEAN : TextFreeName(u, text, r)
    \/ \E text \in LinkTexts, r \in BOOLEAN : TextFreeLink(u, text, r)
    \/ \E text \in ChatIdTexts, r \in BOOLEAN : TextFreeChatId(u, text, r)
    \/ \E text \in IndexTexts, r \in BOOLEAN : TextRemoveFree(u, text, r)

NextWizards ==
    \/ LoadData
    \/ \E u \in Users : Button(u, FreeChannelActions)
    \/ \E u \in Users : IgnoredText(u)
    \/ \E u \in Users : FreeChannelText(u)

SpecWizards == InitWizards /\ [][NextWizards]_vars

-----------------------------------------------------------------------------
(* Handlers as cooperative tasks.  The loops of the two fan-outs over      *)
(* FREE_CHANNELS.keys() await an outbound call in every iteration; when    *)
(* updates are processed concurrently, other handlers run while a loop is  *)
(* suspended there.  The iterator of a dict raises RuntimeError from its   *)
(* next() when the size of the dict is not the one it remembers.           *)

\* the loop begins: the iterator is created and hands out the first key
BeginLoop(kind, u, text) ==
    [kind |-> kind, u |-> u, text |-> text, at |-> DictKeys(FREE_CHANNELS),
     cur |-> FREE_CHANNELS[1][1], pos |-> 1, used |-> Len(FREE_CHANNELS),
     done |-> <<>>]

\* next() of the iterator of the suspended loop
IterNext ==
    IF Len(FREE_CHANNELS) # task.used THEN "RuntimeError"
    ELSE IF task.pos < Len(FREE_CHANNELS) THEN "key"
    ELSE "StopIteration"

\* the loop goes on to the key the iterator hands out
NextKey(done) ==
    [task EXCEPT !.cur = FREE_CHANNELS[task.pos + 1][1], !.pos = @ + 1,
                 !.done = done]

\* lines 522, 538-542: the post handler, up to its first send
PostBegin(u, text, r) ==
    /\ Answering(u, "awaiting_post_message")
    /\ task.kind = "none"
    /\ user_data' = PopStep(u)
    /\ IF FREE_CHANNELS = <<>>
       THEN /\ calls' = PostCalls(u, <<>>, text, {}, r)
            /\ ev' = Event("text", u, "awaiting_post_message", r)
            /\ UNCHANGED task
       ELSE /\ task' = BeginLoop("post", u, text)
            /\ UNCHANGED <<ev, calls>>
    /\ UNCHANGED <<pc, DATA_FILE, disk, registry, USER_DATA>>

\* lines 540-548: the pending send returns (failed: it raised), and the loop
\* asks for the next key; r: the report reply raises
PostResume(failed, r) ==
    /\ pc = "run"
    /\ task.kind = "post"
    /\ LET done == task.done
                   \o <<Call("send_message", task.cur, task.text, Res(failed))>>
       IN  CASE IterNext = "RuntimeError" ->
                  /\ calls' = done
                  /\ ev' = Event("text", task.u, "awaiting_post_message", TRUE)
                  /\ task' = NoTask
             [] IterNext = "key" ->
                  /\ task' = NextKey(done)
                  /\ UNCHANGED <<ev, calls>>
             [] IterNext = "StopIteration" ->
                  /\ calls' = done \o <<Reply(task.u, <<"post_done", CountRes(done, "ok"),
                                                        CountRes(done, "error")>>, r)>>
                  /\ ev' = Event("text", task.u, "awaiting_post_message", r)
                  /\ task' = NoTask
    /\ UNCHANGED <<pc, DATA_FILE, disk, registry, USER_DATA, user_data>>

\* lines 174-188, 142-148: the notification that user u, not an admin, has
\* left the mandatory channel, up to the worker's first ban
KickBegin(u) ==
    /\ pc = "run"
    /\ task.kind = "none"
    /\ ~is_admin(u)
    /\ IF FREE_CHANNELS = <<>>
       THEN /\ calls' = <<>>
            /\ ev' = [Event("chat_member", u, "left_mandatory", FALSE)
                      EXCEPT !.about = u]
            /\ UNCHANGED task
       ELSE /\ task' = BeginLoop("kick", u, NoText)
            /\ UNCHANGED <<ev, calls>>
    /\ UNCHANGED <<pc, DATA_FILE, disk, registry, USER_DATA, user_data>>

\* lines 146-152: the pending ban and unban return (banFailed, unbanFailed:
\* they raised), and the loop asks for the next key
KickResume(banFailed, unbanFailed) ==
    /\ pc = "run"
    /\ task.kind = "kick"
    /\ LET done == task.done
                   \o KickLoop(<<task.cur>>, task.u,
                               IF banFailed THEN {task.cur} ELSE {},
                               IF unbanFailed THEN {task.cur} ELSE {})
           ended == [Event("chat_member", task.u, "left_mandatory",
                           IterNext = "RuntimeError")
                     EXCEPT !.about = task.u]
       IN  IF IterNext = "key"
           THEN /\ task' = NextKey(done)
                /\ UNCHANGED <<ev, calls>>
           ELSE /\ calls' = done
                /\ ev' = ended
                /\ task' = NoTask
    /\ UNCHANGED <<pc, DATA_FILE, disk, registry, USER_DATA, user_data>>

\* Between two calls of a suspended loop the handlers of this
\* specification change the key set of FREE_CHANNELS at most once.
AtMostOneChange == task.kind = "none" \/ DictKeys(FREE_CHANNELS) = task.at

\* The owner posts, admin 2 adds and removes free channels and user 3 leaves
\* the mandatory channel, their updates processed concurrently.
InitConcurrent == InitWith({File(FileOfEarlierRun)})

NextConcurrent ==
    \/ LoadData
    \/ AtMostOneChange /\ ButtonAsk(OWNER_ID, "post_msg", "none")
    \/ \E a \in FreeChannelActions : AtMostOneChange /\ ButtonAsk(2, a, "none")
    \/ \E text \in NameTexts : AtMostOneChange /\ TextFreeName(2, text, FALSE)
    \/ \E text \in LinkTexts : AtMostOneChange /\ TextFreeLink(2, text, FALSE)
    \/ \E text \in ChatIdTexts : AtMostOneChange /\ TextFreeChatId(2, text, FALSE)
    \/ \E text \in IndexTexts : AtMostOneChange /\ TextRemoveFree(2, text, FALSE)
    \/ \E text \in MessageTexts, r \in BOOLEAN : PostBegin(OWNER_ID, text, r)
    \/ \E failed, r \in BOOLEAN : PostResume(failed, r)
    \/ KickBegin(3)
    \/ \E banFailed, unbanFailed \in BOOLEAN : KickResume(banFailed, unbanFailed)

SpecConcurrent == InitConcurrent /\ [][NextConcurrent]_vars

-----------------------------------------------------------------------------
(* Properties of the channel wizards (SpecChannels).                       *)

\* the snapshot file maps chat_id to name and to link
SnapshotHasChannel(file, chat_id, name, link) ==
    /\ file # NoFile
    /\ DictGet(file[1].FREE_CHANNELS, Str(chat_id), NoText) = name
    /\ DictGet(file[1].FREE_CHANNEL_LINKS, Str(chat_id), NoText) = link

\* the answer text is a chat id the third step accepts
ValidChatId(text) == ~IntRaises(text) /\ IsChannelId(ParseInt(text))

\* the step is the handling of a text message that popped the step st
Answered(st) == ev'.h = "text" /\ ev'.st = st

\* C1, the first two messages: the name and the link answers store the answer
\* and advance the step, and leave the catalogue and the link mapping alone.
C1_FirstTwoMessages ==
    /\ Answered("awaiting_free_channel_name") =>
          \A r \in BOOLEAN, text \in NameTexts :
             TextFreeName(ev'.u, text, r) =>
                /\ user_data'[ev'.u].new_channel_name = text
                /\ user_data'[ev'.u].next_step = "awaiting_free_channel_link"
                /\ UNCHANGED <<FREE_CHANNELS, FREE_CHANNEL_LINKS>>
    /\ Answered("awaiting_free_channel_link") =>
          \A r \in BOOLEAN, text \in LinkTexts :
             TextFreeLink(ev'.u, text, r) =>
                /\ user_data'[ev'.u].new_channel_link = text
                /\ user_data'[ev'.u].new_channel_name
                      = user_data[ev'.u].new_channel_name
                /\ user_data'[ev'.u].next_step = "awaiting_free_channel_chat_id"
                /\ UNCHANGED <<FREE_CHANNELS, FREE_CHANNEL_LINKS>>

\* C1, the third message, in memory: a valid chat id C maps C to the
\* accumulated name and link and clears the admin's wizard state.
C1_ThirdMessageInMemory ==
    Answered("awaiting_free_channel_chat_id") =>
       \A r \in BOOLEAN, text \in ChatIdTexts :
          (TextFreeChatId(ev'.u, text, r) /\ ValidChatId(text)) =>
             /\ Truthy(user_data[ev'.u].new_channel_name)
             /\ Truthy(user_data[ev'.u].new_channel_link)
             /\ DictGet(FREE_CHANNELS', ParseInt(text), NoText)
                   = user_data[ev'.u].new_channel_name
             /\ DictGet(FREE_CHANNEL_LINKS', ParseInt(text), NoText)
                   = user_data[ev'.u].new_channel_link
             /\ user_data'[ev'.u] = EmptyUserData

\* C1, the third message, on disk: the snapshot contains the new channel.
C1_ThirdMessageOnDisk ==
    Answered("awaiting_free_channel_chat_id") =>
       \A r \in BOOLEAN, text \in ChatIdTexts :
          (TextFreeChatId(ev'.u, text, r) /\ ValidChatId(text)) =>
             SnapshotHasChannel(disk', ParseInt(text),
                                user_data[ev'.u].new_channel_name,
                                user_data[ev'.u].new_channel_link)

\* C1: an admin who starts the add-free-channel wizard and sends a name N, a
\* link L and a valid chat id C ends with the catalogue mapping C to N, the
\* link mapping mapping C to L, the snapshot containing both, and no pending
\* step and no accumulated name or link; the first two messages do not change
\* the catalogue.
C1_AddFreeChannelWizard ==
    [][C1_FirstTwoMessages /\ C1_ThirdMessageInMemory /\ C1_ThirdMessageOnDisk]_vars

\* C1 without the snapshot: what the wizard does in memory.
C1_AddFreeChannelInMemory ==
    [][C1_FirstTwoMessages /\ C1_ThirdMessageInMemory]_vars

HasReply(msg) ==
    \E i \in 1..Len(calls) : calls[i].op = "reply_text" /\ calls[i].arg = msg

\* a channel has just been added by the wizard
C1_Witness ==
    /\ ev.st = "awaiting_free_channel_chat_id"
    /\ HasReply(<<"channel_added">>)
    /\ Len(FREE_CHANNELS) = 2

\* the wizard state of user u does not change
SameWizardState(u) == user_data'[u] = user_data[u]

\* the step is an invalid answer to a numeric step of a channel wizard
C2_InvalidAnswer ==
    \E r \in BOOLEAN :
       \/ /\ Answered("awaiting_free_channel_chat_id")
          /\ \E text \in ChatIdTexts :
                TextFreeChatId(ev'.u, text, r) /\ ~ValidChatId(text)
       \/ /\ Answered("awaiting_remove_free_channel_num")
          /\ \E text \in IndexTexts : TextRemoveFree(ev'.u, text, r) /\ IntRaises(text)
       \/ /\ Answered("awaiting_remove_paid_channel_num")
          /\ \E text \in IndexTexts : TextRemovePaid(ev'.u, text, r) /\ IntRaises(text)

\* C2: an answer to a numeric step that does not parse as an integer, or a
\* chat id that is not of the -100 form, leaves every catalogue unchanged,
\* leaves the pending step on that step and leaves the accumulated name and
\* link in place.
C2_InvalidNumberKeepsStep ==
    [][C2_InvalidAnswer =>
          /\ UNCHANGED <<FREE_CHANNELS, FREE_CHANNEL_LINKS, PAID_CHANNELS>>
          /\ SameWizardState(ev'.u)]_vars

\* C2, what does hold: an invalid answer leaves every catalogue unchanged.
C2_InvalidNumberKeepsCatalogues ==
    [][C2_InvalidAnswer =>
          UNCHANGED <<FREE_CHANNELS, FREE_CHANNEL_LINKS, PAID_CHANNELS>>]_vars

\* a dict without its i-th entry
WithoutEntry(d, i) == [j \in 1..(Len(d) - 1) |-> IF j < i THEN d[j] ELSE d[j + 1]]

\* the entries of dict d are those of dict e whose key is not k
SameButKey(d, e, k) ==
    /\ ~DictHas(d, k)
    /\ \A key \in SeqToSet(DictKeys(e)) \ {k} :
          DictHas(d, key) /\ DictGet(d, key, NoText) = DictGet(e, key, NoText)
    /\ \A key \in SeqToSet(DictKeys(d)) : DictHas(e, key)

HasSave == \E i \in 1..Len(calls) : calls[i].op = "save_data"

\* C3: in the remove-free-channel wizard an integer answer outside 1..n
\* changes neither the catalogue nor the link mapping, clears the pending step
\* and writes no snapshot; an answer i in 1..n removes the i-th channel, in
\* insertion order, and its link.
C3_RemoveFreeChannel ==
    [][Answered("awaiting_remove_free_channel_num") =>
          \A r \in BOOLEAN, text \in IndexTexts :
             (TextRemoveFree(ev'.u, text, r) /\ ~IntRaises(text)) =>
                LET i == ParseInt(text)
                    n == Len(FREE_CHANNELS)
                IN  IF i \in 1..n
                    THEN /\ FREE_CHANNELS' = WithoutEntry(FREE_CHANNELS, i)
                         /\ SameButKey(FREE_CHANNEL_LINKS', FREE_CHANNEL_LINKS,
                                       FREE_CHANNELS[i][1])
                    ELSE /\ UNCHANGED <<FREE_CHANNELS, FREE_CHANNEL_LINKS, disk>>
                         /\ user_data'[ev'.u].next_step = None
                         /\ ~HasSave']_vars

\* the second of two channels has just been removed
C3_Witness ==
    /\ ev.st = "awaiting_remove_free_channel_num"
    /\ HasReply(<<"channel_removed">>)
    /\ DictKeys(FREE_CHANNELS) = <<-1001>>
    /\ ~DictHas(FREE_CHANNEL_LINKS, -1002)

\* the same wizard refusing an index
C3_WitnessRefused ==
    /\ ev.st = "awaiting_remove_free_channel_num"
    /\ HasReply(<<"invalid_number">>)
    /\ Len(FREE_CHANNELS) = 2

-----------------------------------------------------------------------------
(* Properties of the admin and block wizards (SpecAdmins).                 *)

\* the step is the owner answering the block-user step with an integer
C4_OwnerAnswers(text, r) ==
    /\ Answered("awaiting_block_user_id")
    /\ is_owner(ev'.u)
    /\ TextAdminMgmt(ev'.u, "awaiting_block_user_id", text, r)
    /\ ~IntRaises(text)

\* the snapshot file lists user_id as blocked
SnapshotBlocks(file, user_id) ==
    file # NoFile /\ InList(user_id, file[1].BLOCKED_USER_IDS)

\* C4: in the block-user wizard, the owner id or an id of AdminSet leaves
\* BlockList unchanged and is answered with a rejection; any other integer id
\* is in BlockList afterwards and in the snapshot the handler writes.
C4_BlockUserWizard ==
    [][\A r \in BOOLEAN, text \in UserIdTexts :
          C4_OwnerAnswers(text, r) =>
             IF ParseInt(text) = OWNER_ID \/ InList(ParseInt(text), ADMIN_IDS)
             THEN /\ BLOCKED_USER_IDS' = BLOCKED_USER_IDS
                  /\ HasReply(<<"cannot_block_admin">>)'
             ELSE /\ ParseInt(text) \in BLOCKED_USER_IDS'
                  /\ HasSave'
                  /\ SnapshotBlocks(disk', ParseInt(text))]_vars

\* C4 without the snapshot: what the wizard does to BlockList in memory.
C4_BlockUserInMemory ==
    [][\A r \in BOOLEAN, text \in UserIdTexts :
          C4_OwnerAnswers(text, r) =>
             IF ParseInt(text) = OWNER_ID \/ InList(ParseInt(text), ADMIN_IDS)
             THEN /\ BLOCKED_USER_IDS' = BLOCKED_USER_IDS
                  /\ HasReply(<<"cannot_block_admin">>)'
             ELSE ParseInt(text) \in BLOCKED_USER_IDS']_vars

\* C5: the owner id is a member of AdminSet in every state.
C5_OwnerIsAdmin == InList(OWNER_ID, ADMIN_IDS)

\* C6: no user id is at once in AdminSet and in BlockList.
C6_AdminsNotBlocked == SeqToSet(ADMIN_IDS) \cap BLOCKED_USER_IDS = {}

-----------------------------------------------------------------------------
(* Properties of the gate, the worker and the broadcast (SpecGate).        *)

CallsOf(ops) == SelectSeq(calls, LAMBDA c : c.op \in ops)

Lookups == CallsOf({"get_chat_member"})

HasCall(op, msg) ==
    \E i \in 1..Len(calls) : calls[i].op = op /\ calls[i].arg = msg

\* the handler went on as for a member, as for a non-member
GateGranted ==
    \/ HasCall("answer", <<"welcome">>)
    \/ HasCall("reply_text", <<"member_menu">>)
    \/ HasCall("reply_text", <<"help_member">>)

GateDenied ==
    \/ HasCall("answer", <<"not_joined">>)
    \/ HasCall("reply_text", <<"join_prompt">>)
    \/ HasCall("reply_text", <<"help_join_first">>)

\* C7: for a user of AdminSet the gate answers true and makes no lookup; for
\* any other user it makes exactly one lookup, against the mandatory channel,
\* and answers true iff the lookup succeeds with status owner, administrator
\* or member, hence false when the lookup fails.
C7_MembershipGate ==
    ev.h \in {"start", "help", "button"} =>
       /\ \A i \in 1..Len(Lookups) :
             /\ ~is_admin(ev.u)
             /\ Lookups[i].to = MANDATORY_CHANNEL_ID
             /\ Lookups[i].arg = <<ev.u>>
       /\ Len(Lookups) <= 1
       /\ (GateGranted \/ GateDenied) => (Lookups = <<>> <=> is_admin(ev.u))
       /\ is_admin(ev.u) => ~GateDenied
       /\ Lookups # <<>> =>
             /\ GateGranted <=> Lookups[1].res \in MemberLike
             /\ GateDenied <=> Lookups[1].res \notin MemberLike

\* an admin has pressed verify_join and was let in without a lookup
C7_Witness ==
    /\ ev.h = "button"
    /\ is_admin(ev.u)
    /\ GateGranted
    /\ Lookups = <<>>

\* a lookup that raised has closed the gate
C7_WitnessFailClosed ==
    /\ Lookups # <<>>
    /\ Lookups[1].res = "error"
    /\ GateDenied

\* the last handler invoked the removal worker for a non-admin user
WorkerInvoked ==
    /\ ev.st \in {"left_mandatory", "blocked_bot", "not_member"}
    /\ ~is_admin(ev.u)

BanAttempted(chat_id, user_id) ==
    \E j \in 1..Len(calls) :
       /\ calls[j].op = "ban_chat_member"
       /\ calls[j].to = chat_id
       /\ calls[j].arg = <<user_id>>

\* C8: a run of the worker for a non-admin user attempts a ban on every
\* channel of the catalogue, whichever ban or unban calls fail, and raises
\* nothing to its caller (the caller goes on to its next call, or ends
\* normally).
C8_EveryChannelAttempted ==
    WorkerInvoked =>
       /\ \A k \in 1..Len(FREE_CHANNELS) : BanAttempted(FREE_CHANNELS[k][1], ev.u)
       /\ ev.h = "chat_member" => ~ev.raised
       /\ ev.h = "start" => HasCall("reply_text", <<"join_prompt">>)

\* the ban on the first of two channels failed and the second was attempted
C8_Witness ==
    /\ WorkerInvoked
    /\ Len(FREE_CHANNELS) = 2
    /\ \E j \in 1..Len(calls) :
          /\ calls[j].op = "ban_chat_member"
          /\ calls[j].to = FREE_CHANNELS[1][1]
          /\ calls[j].res = "error"
    /\ BanAttempted(FREE_CHANNELS[2][1], ev.u)

\* C9: no ban and no unban is issued against a user of AdminSet.
C9_NoKickOfAdmins ==
    \A j \in 1..Len(calls) :
       calls[j].op \in {"ban_chat_member", "unban_chat_member"} =>
          ~InList(calls[j].arg[1], ADMIN_IDS)

\* an admin other than the owner has left the mandatory channel, channels
\* exist, and nothing was issued
C9_Witness ==
    /\ ev.h = "chat_member"
    /\ ev.st = "left_mandatory"
    /\ InList(ev.u, ADMIN_IDS)
    /\ ev.u # OWNER_ID
    /\ FREE_CHANNELS # <<>>
    /\ calls = <<>>

Sends == CallsOf({"send_message"})

\* the report of a broadcast adds up
ReportAddsUp(c) ==
    /\ c.arg[2] + c.arg[3] = Len(active_users)
    /\ c.arg[3] = CountRes(Sends, "error")

\* C10: a broadcast attempts one send per user of the directory that is
\* neither in AdminSet nor in BlockList, whatever failed before, and the counts
\* it reports add up to the number of targets, the failure count being the
\* number of failed sends.
C10_BroadcastFanout ==
    ev.st = "awaiting_broadcast_message" =>
       /\ [i \in 1..Len(Sends) |-> Sends[i].to] = active_users
       /\ \A j \in 1..Len(calls) :
             (calls[j].op = "reply_text" /\ calls[j].arg[1] = "broadcast_done") =>
                ReportAddsUp(calls[j])

\* C10 when the reply that announces the broadcast does not raise.
C10_FanoutOnceAnnounced ==
    (ev.st = "awaiting_broadcast_message" /\ calls[1].res = "ok") =>
       /\ [i \in 1..Len(Sends) |-> Sends[i].to] = active_users
       /\ \E j \in 1..Len(calls) :
             calls[j].op = "reply_text" /\ calls[j].arg[1] = "broadcast_done"
       /\ \A j \in 1..Len(calls) :
             (calls[j].op = "reply_text" /\ calls[j].arg[1] = "broadcast_done") =>
                ReportAddsUp(calls[j])

-----------------------------------------------------------------------------
(* Properties of the snapshot (SpecChats, SpecAdmins).                     *)

\* the step is a restart taken right after a handler that called save_data
RestartAfterSave == HasSave /\ ev'.h = "restart"

\* C11: the registry a fresh process loads from the snapshot that save_data
\* has just written is the registry that was saved: same AdminSet, catalogues,
\* link mapping, BlockList and ActiveChatRegistry, integer keys and order
\* included.
C11_RoundTrip ==
    [][RestartAfterSave => registry' = registry]_vars

\* C11 for the paths under which save_data writes the file.
C11_RoundTripWhenWritten ==
    [][(RestartAfterSave /\ SaveWrites) => registry' = registry]_vars

\* a restart has reloaded catalogues with integer keys, a block list and a
\* chat registry changed since the first start
C11_WitnessReloaded ==
    /\ ev.h = "restart"
    /\ DictKeys(FREE_CHANNELS) = <<-1001, -1002>>
    /\ BLOCKED_USER_IDS = {3}
    /\ DictKeys(ACTIVE_CHATS) = <<-1001, -1003>>

-----------------------------------------------------------------------------
(* Properties of the member menu (SpecAccess).                             *)

\* the handler showed a channel list or the member menu, or sent an invite
AccessGranted ==
    \E i \in 1..Len(calls) :
       \/ /\ calls[i].op = "edit_message_text"
          /\ calls[i].arg \in {<<"show_free_channels">>, <<"show_paid_channels">>,
                               <<"start_member">>}
       \/ /\ calls[i].op = "send_message"
          /\ calls[i].arg[1] \in {"join_free", "join_paid"}

\* the handler looked the user up and found a member
GatePassed == Lookups # <<>> /\ Lookups[1].res \in MemberLike

\* C12: a button press of a user outside AdminSet shows a channel list or the
\* member menu, or sends an invite link, only when the handler has put the
\* user through the Membership Gate and the gate let the user pass.
C12_AccessOnlyThroughGate ==
    (ev.h = "button" /\ ~is_admin(ev.u) /\ AccessGranted) => GatePassed

-----------------------------------------------------------------------------
(* Properties of the block check and of the checkpoint.                    *)

\* cs holds a ban, an unban, or a send to a user or a catalogue channel
KicksOrSends(cs) ==
    \E i \in 1..Len(cs) :
       \/ cs[i].op \in {"ban_chat_member", "unban_chat_member"}
       \/ cs[i].op = "send_message" /\ cs[i].to # LOG_CHANNEL_ID

\* C13: an event whose user is in BlockList changes no registry structure, no
\* entry of the user directory and no pending step, and causes no ban, no
\* unban and no send to a user or a catalogue channel.
C13_BlockedFirst ==
    [][(pc = "run" /\ ev'.u \in BLOCKED_USER_IDS) =>
          /\ registry' = registry
          /\ USER_DATA' = USER_DATA
          /\ user_data' = user_data
          /\ ~KicksOrSends(calls')]_vars

\* C13 for commands and button presses only.
C13_BlockedCommandsAndButtons ==
    [][(pc = "run" /\ ev'.u \in BLOCKED_USER_IDS
        /\ ev'.h \in {"start", "help", "button"}) =>
          /\ registry' = registry
          /\ USER_DATA' = USER_DATA
          /\ user_data' = user_data
          /\ ~KicksOrSends(calls')]_vars

\* the snapshot file holds exactly the registry in memory
DiskIsMemory ==
    disk = File(Snapshot(ADMIN_IDS, FREE_CHANNELS, FREE_CHANNEL_LINKS,
                         PAID_CHANNELS, BLOCKED_USER_IDS, ACTIVE_CHATS))

\* C14: whenever a handler has finished, normally or by a reply that raised,
\* the snapshot on disk equals the registry in memory.
C14_CheckpointAfterEveryHandler == pc = "run" => DiskIsMemory

\* C14 for the paths under which save_data writes the file.
C14_CheckpointWhenWritable == (pc = "run" /\ SaveWrites) => DiskIsMemory

\* C14 for the writable paths and the handlers that do not raise: such a
\* handler leaves the snapshot equal to the registry if it found it so.
C14_CheckpointWithoutFailures ==
    [][(pc = "run" /\ SaveWrites /\ DiskIsMemory /\ ~ev'.raised) => DiskIsMemory']_vars

-----------------------------------------------------------------------------
(* Properties of the membership notifications (SpecNotify).                *)

\* the last notification reports that a user outside AdminSet has left, or
\* was removed from, the mandatory channel
LeftMandatory ==
    /\ ev.h = "chat_member"
    /\ ev.st = "left_mandatory"
    /\ ~is_admin(ev.about)

\* C16: when a notification reports that a user outside AdminSet went from
\* member to left or banned in the mandatory channel, the worker runs for that
\* user, whoever made the change, and not for the user who made it.
C16_WorkerForAffectedUser ==
    LeftMandatory =>
       /\ \A k \in 1..Len(FREE_CHANNELS) : BanAttempted(FREE_CHANNELS[k][1], ev.about)
       /\ ev.u # ev.about =>
             \A k \in 1..Len(FREE_CHANNELS) : ~BanAttempted(FREE_CHANNELS[k][1], ev.u)

\* C16 for the notifications whose sender is the user they are about.
C16_WorkerWhenUserLeavesAlone ==
    (LeftMandatory /\ ev.u = ev.about) =>
       \A k \in 1..Len(FREE_CHANNELS) : BanAttempted(FREE_CHANNELS[k][1], ev.about)

-----------------------------------------------------------------------------
(* Properties of the start command (SpecStart).                            *)

\* cs holds a ban or an unban
Kicks(cs) ==
    \E i \in 1..Len(cs) : cs[i].op \in {"ban_chat_member", "unban_chat_member"}

\* C17: a start command from a regular user found not a member issues no ban
\* and no unban when the user directory had no entry for that user before the
\* command.
C17_NoKickAtFirstStart ==
    [][(ev'.h = "start" /\ ev'.st = "not_member" /\ ~DictHas(USER_DATA, ev'.u)) =>
          ~Kicks(calls')]_vars

\* C17 the other way round: with an entry in the directory, the worker runs.
C17_KickAtLaterStart ==
    [][(ev'.h = "start" /\ ev'.st = "not_member" /\ DictHas(USER_DATA, ev'.u)) =>
          \A k \in 1..Len(FREE_CHANNELS) :
             \E j \in 1..Len(calls') :
                /\ calls'[j].op = "ban_chat_member"
                /\ calls'[j].to = FREE_CHANNELS[k][1]
                /\ calls'[j].arg = <<ev'.u>>]_vars

-----------------------------------------------------------------------------
(* Properties of the roles (SpecRoles).                                    *)

\* AdminSet, BlockList and the catalogues
guarded == <<ADMIN_IDS, BLOCKED_USER_IDS, FREE_CHANNELS, FREE_CHANNEL_LINKS,
             PAID_CHANNELS>>

\* C15: a button press or a text message from a user who is not, or no
\* longer, in AdminSet changes no catalogue, neither AdminSet nor BlockList,
\* sets or consumes no pending step, and sends nothing to users or channels,
\* whatever step that user has pending.
C15_RoleCheckedAtActionTime ==
    [][(pc = "run" /\ ev'.h \in {"button", "text"} /\ ~is_admin(ev'.u)) =>
          /\ guarded' = guarded
          /\ user_data' = user_data
          /\ ~KicksOrSends(calls')]_vars

\* a user removed from AdminSet while a step was pending has sent a text
C15_Witness ==
    /\ ev.h = "text"
    /\ ev.u # OWNER_ID
    /\ ~is_admin(ev.u)
    /\ user_data[ev.u].next_step # None

\* C18: after start-up, AdminSet and BlockList change only in a text answer to
\* a step of the admin and block wizards sent by the owner.
C18_OnlyOwnerChangesRoles ==
    [][(pc = "run" /\ <<ADMIN_IDS, BLOCKED_USER_IDS>>' # <<ADMIN_IDS, BLOCKED_USER_IDS>>) =>
          /\ ev'.h = "text"
          /\ ev'.u = OWNER_ID
          /\ ev'.st \in AdminSteps]_vars

\* the owner has made user 2 an admin, who has then answered a step of the
\* admin wizards
C18_Witness ==
    /\ ADMIN_IDS = <<1, 2>>
    /\ ev.h = "text"
    /\ ev.u = 2
    /\ ev.st \in AdminSteps

\* the menu tokens guarded by is_owner
OwnerTokens == {token \in DOMAIN MenuGuard : MenuGuard[token] = "owner"}

\* the step is user u pressing the button of an owner-only action
OwnerOnlyPress(u) ==
    \/ \E action \in AdminActions, fail \in {"none", "edit"} : ButtonAsk(u, action, fail)
    \/ \E token \in OwnerTokens, fail \in {"none", "edit"} : ButtonMenu(u, token, fail)
    \/ \E chat_id \in LeaveChatIds : ButtonLeaveChat(u, chat_id, "none", FALSE)

\* the step is user u pressing an owner-only menu or leave button
OwnerOnlyMenuPress(u) ==
    \/ \E token \in OwnerTokens, fail \in {"none", "edit"} : ButtonMenu(u, token, fail)
    \/ \E chat_id \in LeaveChatIds : ButtonLeaveChat(u, chat_id, "none", FALSE)

\* cs edits or sends a message
EditsOrSends(cs) ==
    \E i \in 1..Len(cs) :
       cs[i].op \in {"edit_message_text", "send_message", "reply_text"}

\* C20: the press of an owner-only button by a user who is not the owner sets
\* no pending step, edits and sends no message and changes no registry
\* structure.
C20_OwnerOnlyButtonsDropped ==
    [][(ev'.h = "button" /\ ~is_owner(ev'.u) /\ OwnerOnlyPress(ev'.u)) =>
          /\ user_data' = user_data
          /\ registry' = registry
          /\ ~EditsOrSends(calls')]_vars

\* C20 for the owner-only menus, lists and the leave button.
C20_OwnerOnlyMenusDropped ==
    [][(ev'.h = "button" /\ ~is_owner(ev'.u) /\ OwnerOnlyMenuPress(ev'.u)) =>
          /\ user_data' = user_data
          /\ registry' = registry
          /\ ~EditsOrSends(calls')]_vars

-----------------------------------------------------------------------------
(* Properties of the pending step (SpecChannels).                          *)

catalogues == <<FREE_CHANNELS, FREE_CHANNEL_LINKS, PAID_CHANNELS>>

\* the step leaves the accumulated name and link of user u alone
KeepsAccumulated(u) ==
    /\ user_data'[u].new_channel_name = user_data[u].new_channel_name
    /\ user_data'[u].new_channel_link = user_data[u].new_channel_link

\* the step changes only what an answer to step st may change
AnswerTo(st, u) ==
    CASE st \in {"awaiting_free_channel_name", "awaiting_free_channel_link",
                 "awaiting_paid_channel_name"} ->
            catalogues' = catalogues
      [] st = "awaiting_free_channel_chat_id" ->
            /\ PAID_CHANNELS' = PAID_CHANNELS
            /\ Len(FREE_CHANNELS') >= Len(FREE_CHANNELS)
      [] st = "awaiting_remove_free_channel_num" ->
            /\ PAID_CHANNELS' = PAID_CHANNELS
            /\ Len(FREE_CHANNELS') <= Len(FREE_CHANNELS)
            /\ KeepsAccumulated(u)
      [] st = "awaiting_paid_channel_link" ->
            /\ <<FREE_CHANNELS, FREE_CHANNEL_LINKS>>' = <<FREE_CHANNELS, FREE_CHANNEL_LINKS>>
            /\ Len(PAID_CHANNELS') = Len(PAID_CHANNELS) + 1
      [] st = "awaiting_remove_paid_channel_num" ->
            /\ <<FREE_CHANNELS, FREE_CHANNEL_LINKS>>' = <<FREE_CHANNELS, FREE_CHANNEL_LINKS>>
            /\ Len(PAID_CHANNELS') <= Len(PAID_CHANNELS)
            /\ KeepsAccumulated(u)
      [] OTHER -> TRUE

\* C19: a user has one pending step; a data-entry button pressed by an admin
\* sets the step of that button whatever step was pending, and a text message
\* is handled as the answer to the step pending when it arrives and to no
\* other.
C19_OnePendingStep ==
    [][/\ \A action \in ChannelActions, fail \in {"none", "edit"} :
             (ev'.h = "button" /\ is_admin(ev'.u) /\ ButtonAsk(ev'.u, action, fail)) =>
                user_data'[ev'.u].next_step = prompts[action]
       /\ (ev'.h = "text" /\ ev'.st # None) =>
             /\ ev'.st = user_data[ev'.u].next_step
             /\ AnswerTo(ev'.st, ev'.u)]_vars

\* an admin who had given the name of a new channel has pressed the remove
\* button instead, and the text that followed was taken as the number of the
\* channel to remove
C19_Witness ==
    /\ ev.h = "text"
    /\ ev.st = "awaiting_remove_free_channel_num"
    /\ user_data[ev.u].new_channel_name # NoText
    /\ user_data[ev.u].next_step = None

-----------------------------------------------------------------------------
(* Wizard state is per user                                                *)

\* the steps answered by one message
SingleSteps == {"awaiting_broadcast_message", "awaiting_post_message",
                "awaiting_remove_free_channel_num",
                "awaiting_remove_paid_channel_num"} \cup AdminSteps

\* C21: a text message from a user leaves the pending step and the
\* accumulated fields of every other user as they were, in every
\* interleaving of the users' events; the message of an admin whose pending
\* step is a single-step one clears that step, and the message of a
\* non-admin leaves the sender's own step as it was.
C21_WizardStatePerUser ==
    [][(pc = "run" /\ ev'.h = "text") =>
          /\ \A a \in Users \ {ev'.u} : user_data'[a] = user_data[a]
          /\ (is_admin(ev'.u) /\ user_data[ev'.u].next_step \in SingleSteps)
                => user_data'[ev'.u].next_step = None
          /\ ~is_admin(ev'.u) => user_data'[ev'.u] = user_data[ev'.u]]_vars

\* an admin has answered a single-step wizard, the marker is cleared, and
\* another admin's wizard is still waiting for its second answer
C21_Witness ==
    /\ ev.h = "text"
    /\ ev.st = "awaiting_remove_free_channel_num"
    /\ user_data[ev.u].next_step = None
    /\ \E a \in Users \ {ev.u} :
          /\ user_data[a].next_step = "awaiting_free_channel_link"
          /\ user_data[a].new_channel_name # NoText

-----------------------------------------------------------------------------
(* Properties of the leave-chat button (SpecChats).                        *)

\* the snapshot file lists chat_id among the bot's chats
SnapshotHasChat(file, chat_id) ==
    /\ file # NoFile
    /\ DictHas(file[1].ACTIVE_CHATS, Str(chat_id))

\* the handler that finishes has issued the leave-chat call, with result res
LeaveCalled(res) ==
    /\ pc = "run"
    /\ ev'.h = "button"
    /\ calls' # <<>>
    /\ calls'[1].op = "leave_chat"
    /\ calls'[1].res = res

\* the handler that finishes has issued the call op with result res
CallResult(op, res) ==
    \E i \in 1..Len(calls') : calls'[i].op = op /\ calls'[i].res = res

\* C22: when the owner's leave-chat call for chat c succeeds, c is neither in
\* ACTIVE_CHATS nor in the snapshot once the handler has finished, whether
\* or not the answer or the re-render that follow fail; when the call fails,
\* ACTIVE_CHATS and the snapshot are unchanged.
C22_LeaveChat ==
    [][/\ LeaveCalled("ok") =>
             /\ ~DictHas(ACTIVE_CHATS', calls'[1].to)
             /\ ~SnapshotHasChat(disk', calls'[1].to)
       /\ LeaveCalled("error") =>
             /\ ACTIVE_CHATS' = ACTIVE_CHATS
             /\ disk' = disk]_vars

\* C22 for the presses whose confirmation (query.answer) is delivered, in
\* memory: the chat is dropped also when the re-render fails, and a failed
\* leave-chat call changes nothing.
C22_LeaveChatConfirmed ==
    [][/\ (LeaveCalled("ok") /\ CallResult("answer", "ok")
           /\ ~CallResult("answer", "error")) =>
             /\ ~DictHas(ACTIVE_CHATS', calls'[1].to)
             /\ SaveWrites => ~SnapshotHasChat(disk', calls'[1].to)
       /\ LeaveCalled("error") =>
             /\ ACTIVE_CHATS' = ACTIVE_CHATS
             /\ disk' = disk]_vars

-----------------------------------------------------------------------------
(* Properties of the notification that a user blocked the bot (SpecGate).  *)

\* the handler that finishes has handled a notification from the private
\* chat of a user outside AdminSet who went from member to left or banned
BlockedBot ==
    /\ pc = "run"
    /\ ev'.h = "chat_member"
    /\ ev'.st = "blocked_bot"
    /\ ~is_admin(ev'.about)

\* C23: when a notification from a private chat reports that a user outside
\* AdminSet went from a member-like status to left or banned, the handler
\* ends with no USER_DATA entry for that user and with a ban attempted for
\* that user on every channel of FREE_CHANNELS, also when the send to the
\* log channel fails.
C23_BlockedBotForgotten ==
    [][BlockedBot =>
          /\ ~DictHas(USER_DATA', ev'.about)
          /\ \A k \in 1..Len(FREE_CHANNELS) :
                \E j \in 1..Len(calls') :
                   /\ calls'[j].op = "ban_chat_member"
                   /\ calls'[j].to = FREE_CHANNELS[k][1]
                   /\ calls'[j].arg = <<ev'.about>>
          /\ ~ev'.raised]_vars

\* a user has blocked the bot, the send to the log channel failed, and the
\* worker went on to the two channels of the catalogue
C23_Witness ==
    /\ ev.h = "chat_member"
    /\ ev.st = "blocked_bot"
    /\ ~is_admin(ev.about)
    /\ Len(FREE_CHANNELS) = 2
    /\ calls[1].op = "send_message"
    /\ calls[1].to = LOG_CHANNEL_ID
    /\ calls[1].res = "error"
    /\ \A k \in 1..Len(FREE_CHANNELS) : BanAttempted(FREE_CHANNELS[k][1], ev.about)
    /\ ~DictHas(USER_DATA, ev.about)

-----------------------------------------------------------------------------
(* The order of the worker's calls (SpecGate).                             *)

\* C24: among the calls of a handler, every ban that succeeded is followed
\* at once by the unban of the same user on the same channel, and every unban
\* comes straight after a ban of the same user on the same channel that
\* succeeded.
C24_BanThenUnban ==
    \A j \in 1..Len(calls) :
       /\ (calls[j].op = "ban_chat_member" /\ calls[j].res = "ok") =>
             /\ j < Len(calls)
             /\ calls[j + 1].op = "unban_chat_member"
             /\ calls[j + 1].to = calls[j].to
             /\ calls[j + 1].arg = calls[j].arg
       /\ calls[j].op = "unban_chat_member" =>
             /\ j > 1
             /\ calls[j - 1].op = "ban_chat_member"
             /\ calls[j - 1].res = "ok"
             /\ calls[j - 1].to = calls[j].to
             /\ calls[j - 1].arg = calls[j].arg

\* a run over two channels: the ban on the first succeeded and its unban
\* followed, the ban on the second failed and no unban was issued for it
C24_Witness ==
    /\ Len(FREE_CHANNELS) = 2
    /\ \E j \in 1..Len(calls) :
          /\ j + 2 <= Len(calls)
          /\ calls[j].op = "ban_chat_member"
          /\ calls[j].to = FREE_CHANNELS[1][1]
          /\ calls[j].res = "ok"
          /\ calls[j + 1].op = "unban_chat_member"
          /\ calls[j + 1].to = FREE_CHANNELS[1][1]
          /\ calls[j + 2].op = "ban_chat_member"
          /\ calls[j + 2].to = FREE_CHANNELS[2][1]
          /\ calls[j + 2].res = "error"
    /\ \A j \in 1..Len(calls) :
          calls[j].op = "unban_chat_member" => calls[j].to # FREE_CHANNELS[2][1]

-----------------------------------------------------------------------------
(* Fan-outs while other handlers run (SpecConcurrent).                     *)

\* the step ends a suspended fan-out
FanoutEnds == task.kind # "none" /\ task'.kind = "none"

\* every channel that was in the catalogue when the fan-out ending with this
\* step began has had its send, or its ban, attempted
AllAttempted ==
    \A k \in 1..Len(task.at) :
       \E j \in 1..Len(calls') :
          /\ calls'[j].op \in {"send_message", "ban_chat_member"}
          /\ calls'[j].to = task.at[k]

C25_FanoutWithoutCatalogueChange ==
    [][(FanoutEnds /\ Len(FREE_CHANNELS) = task.used) =>
          (AllAttempted /\ (task.kind = "kick" => ~ev'.raised))]_vars

-----------------------------------------------------------------------------
(* The steps of the add-channel wizards (SpecChannels).                    *)

\* the handler that finishes has answered step st
AnsweredStep(st) == pc = "run" /\ ev'.h = "text" /\ ev'.st = st

\* the answer is stored and the wizard waits for the answer to step next
StoresAndAdvances(next) ==
    /\ catalogues' = catalogues
    /\ user_data'[ev'.u].next_step = next

\* C26 as stated: the free and the paid wizard are both three steps; the
\* name and the link answers only store and advance the pending step, and
\* leave the catalogues as they were.
C26_ThreeStepWizards ==
    [][/\ AnsweredStep("awaiting_free_channel_name") =>
             StoresAndAdvances("awaiting_free_channel_link")
       /\ AnsweredStep("awaiting_free_channel_link") =>
             StoresAndAdvances("awaiting_free_channel_chat_id")
       /\ AnsweredStep("awaiting_paid_channel_name") =>
             StoresAndAdvances("awaiting_paid_channel_link")
       /\ AnsweredStep("awaiting_paid_channel_link") =>
             /\ catalogues' = catalogues
             /\ user_data'[ev'.u].next_step # None]_vars

\* C26 amended: the free wizard is three steps (name, link, chat id) and the
\* paid wizard two (name, link).  The answers before the last only store
\* and advance the pending step; the free catalogue and its links change
\* only at the chat id answer, the paid catalogue only at the link answer
\* of the paid wizard, which appends one entry and ends the wizard.
C26_WizardSteps ==
    [][/\ AnsweredStep("awaiting_free_channel_name") =>
             /\ StoresAndAdvances("awaiting_free_channel_link")
             /\ user_data'[ev'.u].new_channel_link = user_data[ev'.u].new_channel_link
       /\ AnsweredStep("awaiting_free_channel_link") =>
             /\ StoresAndAdvances("awaiting_free_channel_chat_id")
             /\ user_data'[ev'.u].new_channel_name = user_data[ev'.u].new_channel_name
       /\ AnsweredStep("awaiting_free_channel_chat_id") =>
             /\ PAID_CHANNELS' = PAID_CHANNELS
             /\ user_data'[ev'.u].next_step = None
       /\ AnsweredStep("awaiting_paid_channel_name") =>
             /\ StoresAndAdvances("awaiting_paid_channel_link")
             /\ user_data'[ev'.u].new_channel_link = user_data[ev'.u].new_channel_link
       /\ AnsweredStep("awaiting_paid_channel_link") =>
             /\ FREE_CHANNELS' = FREE_CHANNELS
             /\ FREE_CHANNEL_LINKS' = FREE_CHANNEL_LINKS
             /\ Len(PAID_CHANNELS') = Len(PAID_CHANNELS) + 1
             /\ SubSeq(PAID_CHANNELS', 1, Len(PAID_CHANNELS)) = PAID_CHANNELS
             /\ user_data'[ev'.u].next_step = None]_vars

\* the paid wizard has ended with its link answer and an entry in the
\* catalogue, after the free wizard had added a second free channel
C26_Witness ==
    /\ ev.h = "text"
    /\ ev.st = "awaiting_paid_channel_link"
    /\ Len(PAID_CHANNELS) = 1
    /\ Len(FREE_CHANNELS) = 2
    /\ user_data[ev.u].next_step = None

-----------------------------------------------------------------------------
(* The free catalogue and its links (SpecWizards).                         *)

\* FREE_CHANNELS and FREE_CHANNEL_LINKS have the same keys
SameKeys ==
    SeqToSet(DictKeys(FREE_CHANNELS)) = SeqToSet(DictKeys(FREE_CHANNEL_LINKS))

\* C27: a step taken while the free catalogue and the link mapping have the
\* same keys leaves them with the same keys: a channel the step adds has a
\* link after it, and a channel the step removes has none.
C27_LinksFollowCatalogue ==
    [][SameKeys =>
          /\ SameKeys'
          /\ \A k \in 1..Len(FREE_CHANNELS') :
                ~DictHas(FREE_CHANNELS, FREE_CHANNELS'[k][1]) =>
                   DictHas(FREE_CHANNEL_LINKS', FREE_CHANNELS'[k][1])
          /\ \A k \in 1..Len(FREE_CHANNELS) :
                ~DictHas(FREE_CHANNELS', FREE_CHANNELS[k][1]) =>
                   ~DictHas(FREE_CHANNEL_LINKS', FREE_CHANNELS[k][1])]_vars

\* two channels were added and the remove wizard has just removed one: the
\* channel left has its link and the link mapping has nothing else
C27_Witness ==
    /\ ev.h = "text"
    /\ ev.st = "awaiting_remove_free_channel_num"
    /\ HasCall("reply_text", <<"channel_removed">>)
    /\ Len(FREE_CHANNELS) = 1
    /\ Len(FREE_CHANNEL_LINKS) = 1
    /\ DictHas(FREE_CHANNEL_LINKS, FREE_CHANNELS[1][1])

-----------------------------------------------------------------------------
(* Two admins adding free channels (SpecWizards).                          *)

\* the handler that finishes has processed a final answer of the add wizard
\* and added the channel
FinalAnswerAdds ==
    /\ pc = "run"
    /\ ev'.h = "text"
    /\ ev'.st = "awaiting_free_channel_chat_id"
    /\ Len(calls') = 2
    /\ calls'[2].arg = <<"channel_added">>

\* the channels added before are kept, with their links, and the catalogue
\* has the channel of the answering admin, with the name and the link that
\* admin had given
KeptInMemory ==
    /\ \A k \in 1..Len(FREE_CHANNELS) :
          /\ DictHas(FREE_CHANNELS', FREE_CHANNELS[k][1])
          /\ DictHas(FREE_CHANNEL_LINKS', FREE_CHANNELS[k][1])
    /\ \E k \in 1..Len(FREE_CHANNELS') :
          /\ FREE_CHANNELS'[k][2] = user_data[ev'.u].new_channel_name
          /\ DictGet(FREE_CHANNEL_LINKS', FREE_CHANNELS'[k][1], NoText)
                = user_data[ev'.u].new_channel_link

\* the snapshot file holds every channel of the catalogue, with its link
KeptOnDisk ==
    \A k \in 1..Len(FREE_CHANNELS') :
       SnapshotHasChannel(disk', FREE_CHANNELS'[k][1], FREE_CHANNELS'[k][2],
                          DictGet(FREE_CHANNEL_LINKS', FREE_CHANNELS'[k][1], NoText))

\* C28: in every interleaving of the admins' add wizards, when a final
\* answer has been processed the catalogue and the link mapping hold the
\* channel it added and every channel added before it, and so does the
\* snapshot file: no completed addition is lost, in memory or on disk.
C28_NoLostUpdate ==
    [][FinalAnswerAdds => (KeptInMemory /\ KeptOnDisk)]_vars

\* C28 in memory.
C28_NoLostUpdateInMemory ==
    [][FinalAnswerAdds => KeptInMemory]_vars

\* C28 for the paths under which save_data writes the file.
C28_NoLostUpdateWhenWritten ==
    [][(FinalAnswerAdds /\ SaveWrites) => (KeptInMemory /\ KeptOnDisk)]_vars

\* admin 2 has completed the wizard for a second channel while the owner,
\* who is in the middle of a wizard, is waiting to send a chat id
C28_WitnessInterleaved ==
    /\ ev.h = "text"
    /\ ev.u = 2
    /\ ev.st = "awaiting_free_channel_chat_id"
    /\ HasCall("reply_text", <<"channel_added">>)
    /\ Len(FREE_CHANNELS) = 2
    /\ user_data[OWNER_ID].next_step = "awaiting_free_channel_chat_id"

-----------------------------------------------------------------------------
(* The accumulator at the chat id step (SpecChannels).                     *)

\* C29: a user whose pending step is the chat id step of the add free
\* channel wizard has both a name and a link accumulated, whatever wizards
\* were started, abandoned and answered before; and no handler answers that
\* some information was missing.
C29_AccumulatorComplete ==
    /\ \A u \in Users :
          user_data[u].next_step = "awaiting_free_channel_chat_id" =>
             /\ Truthy(user_data[u].new_channel_name)
             /\ Truthy(user_data[u].new_channel_link)
    /\ \A j \in 1..Len(calls) :
          calls[j].op = "reply_text" => calls[j].arg # <<"info_missing">>

\* an admin is at the chat id step with a name and a link, after the paid
\* wizard, which takes the name out of the accumulator, had been completed
C29_Witness ==
    /\ Len(PAID_CHANNELS) = 1
    /\ \E u \in Users :
          /\ user_data[u].next_step = "awaiting_free_channel_chat_id"
          /\ user_data[u].new_channel_name = T_B
          /\ user_data[u].new_channel_link = T_L
====
